---- MODULE Spec2Model ----
(***************************************************************************)
(* Model of the interactive project initializer, scripts/init.go.          *)
(*                                                                         *)
(* A string is a sequence of one-character strings, so that trimming,      *)
(* lower-casing, pattern matching, substring search and replacement are    *)
(* computed rather than assumed.  Fixed literal text of a template (text   *)
(* that no configuration field can change) is carried as one opaque token  *)
(* of several characters; such a token never equals a character.           *)
(***************************************************************************)
EXTENDS Integers, Sequences, FiniteSets, TLC

\* ------------------------------------------------------------------------
\* Characters and strings
\* ------------------------------------------------------------------------

LowerCase == {"a", "b", "c", "d", "e", "f", "g", "h", "i", "j", "k", "l", "m",
              "n", "o", "p", "q", "r", "s", "t", "u", "v", "w", "x", "y", "z"}

UpperCase == {"A", "B", "C", "D", "E", "F", "G", "H", "I", "J", "K", "L", "M",
              "N", "O", "P", "Q", "R", "S", "T", "U", "V", "W", "X", "Y", "Z"}

Digits == {"0", "1", "2", "3", "4", "5", "6", "7", "8", "9"}

\* [a-zA-Z0-9]
Alnum == LowerCase \cup UpperCase \cup Digits

\* [a-zA-Z0-9-]
NameInterior == Alnum \cup {"-"}

\* [a-zA-Z0-9-_.]
SegInterior == Alnum \cup {"-", "_", "."}

\* the characters strings.TrimSpace strips (unicode.IsSpace) among those a
\* string of a module can hold, which are the characters up to U+00FF and
\* the characters above whose code ends in a byte of 0x80 or more: the
\* space, \t, \n, \r, \f, the vertical tab U+000B, the next line U+0085,
\* the no-break space U+00A0 and the ogham space mark U+1680.  The other
\* white space of Unicode (U+2000 to U+200A, U+2028, U+2029, U+202F,
\* U+205F, U+3000) cannot be written.
WhiteSpace == {" ", "\t", "\r", "\n", "\f", "", "", " ", " "}

\* unicode.ToLower: the lower-case letter of every upper-case letter that a
\* string of a module can hold.  Where the lower-case letter itself cannot
\* be written (U+0181 gives U+0253), the element that stands for it is
\* the name of its code point, "U+0253": one element of the string, as
\* every character is, and different from every other character.  The
\* upper-case letters that cannot be written (U+0130, U+212A and the
\* letters above U+FFFF among them) are in no string of the model.
LowerOf ==
    LET pairs ==
        { <<"A", "a">>, <<"B", "b">>, <<"C", "c">>, <<"D", "d">>,
          <<"E", "e">>, <<"F", "f">>, <<"G", "g">>, <<"H", "h">>,
          <<"I", "i">>, <<"J", "j">>, <<"K", "k">>, <<"L", "l">>,
          <<"M", "m">>, <<"N", "n">>, <<"O", "o">>, <<"P", "p">>,
          <<"Q", "q">>, <<"R", "r">>, <<"S", "s">>, <<"T", "t">>,
          <<"U", "u">>, <<"V", "v">>, <<"W", "w">>, <<"X", "x">>,
          <<"Y", "y">>, <<"Z", "z">>, <<"À", "à">>, <<"Á", "á">>,
          <<"Â", "â">>, <<"Ã", "ã">>, <<"Ä", "ä">>, <<"Å", "å">>,
          <<"Æ", "æ">>, <<"Ç", "ç">>, <<"È", "è">>, <<"É", "é">>,
          <<"Ê", "ê">>, <<"Ë", "ë">>, <<"Ì", "ì">>, <<"Í", "í">>,
          <<"Î", "î">>, <<"Ï", "ï">>, <<"Ð", "ð">>, <<"Ñ", "ñ">>,
          <<"Ò", "ò">>, <<"Ó", "ó">>, <<"Ô", "ô">>, <<"Õ", "õ">>,
          <<"Ö", "ö">>, <<"Ø", "ø">>, <<"Ù", "ù">>, <<"Ú", "ú">>,
          <<"Û", "û">>, <<"Ü", "ü">>, <<"Ý", "ý">>, <<"Þ", "þ">>,
          <<"Ƃ", "ƃ">>, <<"Ƅ", "ƅ">>, <<"Ƈ", "ƈ">>, <<"Ƌ", "ƌ">>,
          <<"Ǝ", "ǝ">>, <<"Ƒ", "ƒ">>, <<"Ƙ", "ƙ">>, <<"Ơ", "ơ">>,
          <<"Ƣ", "ƣ">>, <<"Ƥ", "ƥ">>, <<"Ʀ", "ʀ">>, <<"Ƨ", "ƨ">>,
          <<"Ʃ", "ʃ">>, <<"Ƭ", "ƭ">>, <<"Ʈ", "ʈ">>, <<"Ư", "ư">>,
          <<"Ʊ", "ʊ">>, <<"Ʋ", "ʋ">>, <<"Ƴ", "ƴ">>, <<"Ƶ", "ƶ">>,
          <<"Ʒ", "ʒ">>, <<"Ƹ", "ƹ">>, <<"Ƽ", "ƽ">>, <<"Ǆ", "ǆ">>,
          <<"ǅ", "ǆ">>, <<"Ǉ", "ǉ">>, <<"ǈ", "ǉ">>, <<"Ǌ", "ǌ">>,
          <<"ǋ", "ǌ">>, <<"Ǎ", "ǎ">>, <<"Ǐ", "ǐ">>, <<"Ǒ", "ǒ">>,
          <<"Ǔ", "ǔ">>, <<"Ǖ", "ǖ">>, <<"Ǘ", "ǘ">>, <<"Ǚ", "ǚ">>,
          <<"Ǜ", "ǜ">>, <<"Ǟ", "ǟ">>, <<"Ǡ", "ǡ">>, <<"Ǣ", "ǣ">>,
          <<"Ǥ", "ǥ">>, <<"Ǧ", "ǧ">>, <<"Ǩ", "ǩ">>, <<"Ǫ", "ǫ">>,
          <<"Ǭ", "ǭ">>, <<"Ǯ", "ǯ">>, <<"Ǳ", "ǳ">>, <<"ǲ", "ǳ">>,
          <<"Ǵ", "ǵ">>, <<"Ƕ", "ƕ">>, <<"Ƿ", "ƿ">>, <<"Ǹ", "ǹ">>,
          <<"Ǻ", "ǻ">>, <<"Ǽ", "ǽ">>, <<"Ǿ", "ǿ">>, <<"Ά", "ά">>,
          <<"Έ", "έ">>, <<"Ή", "ή">>, <<"Ί", "ί">>, <<"Ό", "ό">>,
          <<"Ύ", "ύ">>, <<"Ώ", "ώ">>, <<"Α", "α">>, <<"Β", "β">>,
          <<"Γ", "γ">>, <<"Δ", "δ">>, <<"Ε", "ε">>, <<"Ζ", "ζ">>,
          <<"Η", "η">>, <<"Θ", "θ">>, <<"Ι", "ι">>, <<"Κ", "κ">>,
          <<"Λ", "λ">>, <<"Μ", "μ">>, <<"Ν", "ν">>, <<"Ξ", "ξ">>,
          <<"Ο", "ο">>, <<"Π", "π">>, <<"Ρ", "ρ">>, <<"Σ", "σ">>,
          <<"Τ", "τ">>, <<"Υ", "υ">>, <<"Φ", "φ">>, <<"Χ", "χ">>,
          <<"Ψ", "ψ">>, <<"Ω", "ω">>, <<"Ϊ", "ϊ">>, <<"Ϋ", "ϋ">>,
          <<"Ϗ", "ϗ">>, <<"Ϙ", "ϙ">>, <<"Ϛ", "ϛ">>, <<"Ϝ", "ϝ">>,
          <<"Ϟ", "ϟ">>, <<"Ϡ", "ϡ">>, <<"Ϣ", "ϣ">>, <<"Ϥ", "ϥ">>,
          <<"Ϧ", "ϧ">>, <<"Ϩ", "ϩ">>, <<"Ϫ", "ϫ">>, <<"Ϭ", "ϭ">>,
          <<"Ϯ", "ϯ">>, <<"ϴ", "θ">>, <<"Ϸ", "ϸ">>, <<"Ϲ", "ϲ">>,
          <<"Ϻ", "ϻ">>, <<"Ҁ", "ҁ">>, <<"Ҋ", "ҋ">>, <<"Ҍ", "ҍ">>,
          <<"Ҏ", "ҏ">>, <<"Ґ", "ґ">>, <<"Ғ", "ғ">>, <<"Ҕ", "ҕ">>,
          <<"Җ", "җ">>, <<"Ҙ", "ҙ">>, <<"Қ", "қ">>, <<"Ҝ", "ҝ">>,
          <<"Ҟ", "ҟ">>, <<"Ҡ", "ҡ">>, <<"Ң", "ң">>, <<"Ҥ", "ҥ">>,
          <<"Ҧ", "ҧ">>, <<"Ҩ", "ҩ">>, <<"Ҫ", "ҫ">>, <<"Ҭ", "ҭ">>,
          <<"Ү", "ү">>, <<"Ұ", "ұ">>, <<"Ҳ", "ҳ">>, <<"Ҵ", "ҵ">>,
          <<"Ҷ", "ҷ">>, <<"Ҹ", "ҹ">>, <<"Һ", "һ">>, <<"Ҽ", "ҽ">>,
          <<"Ҿ", "ҿ">>, <<"Ӏ", "ӏ">>, <<"Ӂ", "ӂ">>, <<"Ӄ", "ӄ">>,
          <<"Ӆ", "ӆ">>, <<"Ӈ", "ӈ">>, <<"Ӊ", "ӊ">>, <<"Ӌ", "ӌ">>,
          <<"Ӎ", "ӎ">>, <<"Ӑ", "ӑ">>, <<"Ӓ", "ӓ">>, <<"Ӕ", "ӕ">>,
          <<"Ӗ", "ӗ">>, <<"Ә", "ә">>, <<"Ӛ", "ӛ">>, <<"Ӝ", "ӝ">>,
          <<"Ӟ", "ӟ">>, <<"Ӡ", "ӡ">>, <<"Ӣ", "ӣ">>, <<"Ӥ", "ӥ">>,
          <<"Ӧ", "ӧ">>, <<"Ө", "ө">>, <<"Ӫ", "ӫ">>, <<"Ӭ", "ӭ">>,
          <<"Ӯ", "ӯ">>, <<"Ӱ", "ӱ">>, <<"Ӳ", "ӳ">>, <<"Ӵ", "ӵ">>,
          <<"Ӷ", "ӷ">>, <<"Ӹ", "ӹ">>, <<"Ӻ", "ӻ">>, <<"Ӽ", "ӽ">>,
          <<"Ӿ", "ӿ">>, <<"Ꮀ", "ꮀ">>, <<"Ꮁ", "ꮁ">>, <<"Ꮂ", "ꮂ">>,
          <<"Ꮃ", "ꮃ">>, <<"Ꮄ", "ꮄ">>, <<"Ꮅ", "ꮅ">>, <<"Ꮆ", "ꮆ">>,
          <<"Ꮇ", "ꮇ">>, <<"Ꮈ", "ꮈ">>, <<"Ꮉ", "ꮉ">>, <<"Ꮊ", "ꮊ">>,
          <<"Ꮋ", "ꮋ">>, <<"Ꮌ", "ꮌ">>, <<"Ꮍ", "ꮍ">>, <<"Ꮎ", "ꮎ">>,
          <<"Ꮏ", "ꮏ">>, <<"Ꮐ", "ꮐ">>, <<"Ꮑ", "ꮑ">>, <<"Ꮒ", "ꮒ">>,
          <<"Ꮓ", "ꮓ">>, <<"Ꮔ", "ꮔ">>, <<"Ꮕ", "ꮕ">>, <<"Ꮖ", "ꮖ">>,
          <<"Ꮗ", "ꮗ">>, <<"Ꮘ", "ꮘ">>, <<"Ꮙ", "ꮙ">>, <<"Ꮚ", "ꮚ">>,
          <<"Ꮛ", "ꮛ">>, <<"Ꮜ", "ꮜ">>, <<"Ꮝ", "ꮝ">>, <<"Ꮞ", "ꮞ">>,
          <<"Ꮟ", "ꮟ">>, <<"Ꮠ", "ꮠ">>, <<"Ꮡ", "ꮡ">>, <<"Ꮢ", "ꮢ">>,
          <<"Ꮣ", "ꮣ">>, <<"Ꮤ", "ꮤ">>, <<"Ꮥ", "ꮥ">>, <<"Ꮦ", "ꮦ">>,
          <<"Ꮧ", "ꮧ">>, <<"Ꮨ", "ꮨ">>, <<"Ꮩ", "ꮩ">>, <<"Ꮪ", "ꮪ">>,
          <<"Ꮫ", "ꮫ">>, <<"Ꮬ", "ꮬ">>, <<"Ꮭ", "ꮭ">>, <<"Ꮮ", "ꮮ">>,
          <<"Ꮯ", "ꮯ">>, <<"Ꮰ", "ꮰ">>, <<"Ꮱ", "ꮱ">>, <<"Ꮲ", "ꮲ">>,
          <<"Ꮳ", "ꮳ">>, <<"Ꮴ", "ꮴ">>, <<"Ꮵ", "ꮵ">>, <<"Ꮶ", "ꮶ">>,
          <<"Ꮷ", "ꮷ">>, <<"Ꮸ", "ꮸ">>, <<"Ꮹ", "ꮹ">>, <<"Ꮺ", "ꮺ">>,
          <<"Ꮻ", "ꮻ">>, <<"Ꮼ", "ꮼ">>, <<"Ꮽ", "ꮽ">>, <<"Ꮾ", "ꮾ">>,
          <<"Ꮿ", "ꮿ">>, <<"Ᏸ", "ᏸ">>, <<"Ᏹ", "ᏹ">>, <<"Ᏺ", "ᏺ">>,
          <<"Ᏻ", "ᏻ">>, <<"Ᏼ", "ᏼ">>, <<"Ᏽ", "ᏽ">>, <<"Ა", "ა">>,
          <<"Ბ", "ბ">>, <<"Გ", "გ">>, <<"Დ", "დ">>, <<"Ე", "ე">>,
          <<"Ვ", "ვ">>, <<"Ზ", "ზ">>, <<"Თ", "თ">>, <<"Ი", "ი">>,
          <<"Კ", "კ">>, <<"Ლ", "ლ">>, <<"Მ", "მ">>, <<"Ნ", "ნ">>,
          <<"Ო", "ო">>, <<"Პ", "პ">>, <<"Ჟ", "ჟ">>, <<"Რ", "რ">>,
          <<"Ს", "ს">>, <<"Ტ", "ტ">>, <<"Უ", "უ">>, <<"Ფ", "ფ">>,
          <<"Ქ", "ქ">>, <<"Ღ", "ღ">>, <<"Ყ", "ყ">>, <<"Შ", "შ">>,
          <<"Ჩ", "ჩ">>, <<"Ც", "ც">>, <<"Ძ", "ძ">>, <<"Წ", "წ">>,
          <<"Ჭ", "ჭ">>, <<"Ხ", "ხ">>, <<"Ჯ", "ჯ">>, <<"Ჰ", "ჰ">>,
          <<"Ჱ", "ჱ">>, <<"Ჲ", "ჲ">>, <<"Ჳ", "ჳ">>, <<"Ჴ", "ჴ">>,
          <<"Ჵ", "ჵ">>, <<"Ჶ", "ჶ">>, <<"Ჷ", "ჷ">>, <<"Ჸ", "ჸ">>,
          <<"Ჹ", "ჹ">>, <<"Ჺ", "ჺ">>, <<"Ჽ", "ჽ">>, <<"Ჾ", "ჾ">>,
          <<"Ჿ", "ჿ">>, <<"Ẁ", "ẁ">>, <<"Ẃ", "ẃ">>, <<"Ẅ", "ẅ">>,
          <<"Ẇ", "ẇ">>, <<"Ẉ", "ẉ">>, <<"Ẋ", "ẋ">>, <<"Ẍ", "ẍ">>,
          <<"Ẏ", "ẏ">>, <<"Ẑ", "ẑ">>, <<"Ẓ", "ẓ">>, <<"Ẕ", "ẕ">>,
          <<"ẞ", "ß">>, <<"Ạ", "ạ">>, <<"Ả", "ả">>, <<"Ấ", "ấ">>,
          <<"Ầ", "ầ">>, <<"Ẩ", "ẩ">>, <<"Ẫ", "ẫ">>, <<"Ậ", "ậ">>,
          <<"Ắ", "ắ">>, <<"Ằ", "ằ">>, <<"Ẳ", "ẳ">>, <<"Ẵ", "ẵ">>,
          <<"Ặ", "ặ">>, <<"Ẹ", "ẹ">>, <<"Ẻ", "ẻ">>, <<"Ẽ", "ẽ">>,
          <<"Ế", "ế">>, <<"Ề", "ề">>, <<"Ể", "ể">>, <<"Ễ", "ễ">>,
          <<"Ệ", "ệ">>, <<"Ỉ", "ỉ">>, <<"Ị", "ị">>, <<"Ọ", "ọ">>,
          <<"Ỏ", "ỏ">>, <<"Ố", "ố">>, <<"Ồ", "ồ">>, <<"Ổ", "ổ">>,
          <<"Ỗ", "ỗ">>, <<"Ộ", "ộ">>, <<"Ớ", "ớ">>, <<"Ờ", "ờ">>,
          <<"Ở", "ở">>, <<"Ỡ", "ỡ">>, <<"Ợ", "ợ">>, <<"Ụ", "ụ">>,
          <<"Ủ", "ủ">>, <<"Ứ", "ứ">>, <<"Ừ", "ừ">>, <<"Ử", "ử">>,
          <<"Ữ", "ữ">>, <<"Ự", "ự">>, <<"Ỳ", "ỳ">>, <<"Ỵ", "ỵ">>,
          <<"Ỷ", "ỷ">>, <<"Ỹ", "ỹ">>, <<"Ỻ", "ỻ">>, <<"Ỽ", "ỽ">>,
          <<"Ỿ", "ỿ">>, <<"ᾈ", "ᾀ">>, <<"ᾉ", "ᾁ">>, <<"ᾊ", "ᾂ">>,
          <<"ᾋ", "ᾃ">>, <<"ᾌ", "ᾄ">>, <<"ᾍ", "ᾅ">>, <<"ᾎ", "ᾆ">>,
          <<"ᾏ", "ᾇ">>, <<"ᾘ", "ᾐ">>, <<"ᾙ", "ᾑ">>, <<"ᾚ", "ᾒ">>,
          <<"ᾛ", "ᾓ">>, <<"ᾜ", "ᾔ">>, <<"ᾝ", "ᾕ">>, <<"ᾞ", "ᾖ">>,
          <<"ᾟ", "ᾗ">>, <<"ᾨ", "ᾠ">>, <<"ᾩ", "ᾡ">>, <<"ᾪ", "ᾢ">>,
          <<"ᾫ", "ᾣ">>, <<"ᾬ", "ᾤ">>, <<"ᾭ", "ᾥ">>, <<"ᾮ", "ᾦ">>,
          <<"ᾯ", "ᾧ">>, <<"Ᾰ", "ᾰ">>, <<"Ᾱ", "ᾱ">>, <<"ᾼ", "ᾳ">>,
          <<"ῌ", "ῃ">>, <<"Ῐ", "ῐ">>, <<"Ῑ", "ῑ">>, <<"Ῠ", "ῠ">>,
          <<"Ῡ", "ῡ">>, <<"Ῥ", "ῥ">>, <<"ῼ", "ῳ">>, <<"Ↄ", "ↄ">>,
          <<"Ⓐ", "ⓐ">>, <<"Ⓑ", "ⓑ">>, <<"Ⓒ", "ⓒ">>, <<"Ⓓ", "ⓓ">>,
          <<"Ⓔ", "ⓔ">>, <<"Ⓕ", "ⓕ">>, <<"Ⓖ", "ⓖ">>, <<"Ⓗ", "ⓗ">>,
          <<"Ⓘ", "ⓘ">>, <<"Ⓙ", "ⓙ">>, <<"Ⓚ", "ⓚ">>, <<"Ⓛ", "ⓛ">>,
          <<"Ⓜ", "ⓜ">>, <<"Ⓝ", "ⓝ">>, <<"Ⓞ", "ⓞ">>, <<"Ⓟ", "ⓟ">>,
          <<"Ⓠ", "ⓠ">>, <<"Ⓡ", "ⓡ">>, <<"Ⓢ", "ⓢ">>, <<"Ⓣ", "ⓣ">>,
          <<"Ⓤ", "ⓤ">>, <<"Ⓥ", "ⓥ">>, <<"Ⓦ", "ⓦ">>, <<"Ⓧ", "ⓧ">>,
          <<"Ⓨ", "ⓨ">>, <<"Ⓩ", "ⓩ">>, <<"Ⲁ", "ⲁ">>, <<"Ⲃ", "ⲃ">>,
          <<"Ⲅ", "ⲅ">>, <<"Ⲇ", "ⲇ">>, <<"Ⲉ", "ⲉ">>, <<"Ⲋ", "ⲋ">>,
          <<"Ⲍ", "ⲍ">>, <<"Ⲏ", "ⲏ">>, <<"Ⲑ", "ⲑ">>, <<"Ⲓ", "ⲓ">>,
          <<"Ⲕ", "ⲕ">>, <<"Ⲗ", "ⲗ">>, <<"Ⲙ", "ⲙ">>, <<"Ⲛ", "ⲛ">>,
          <<"Ⲝ", "ⲝ">>, <<"Ⲟ", "ⲟ">>, <<"Ⲡ", "ⲡ">>, <<"Ⲣ", "ⲣ">>,
          <<"Ⲥ", "ⲥ">>, <<"Ⲧ", "ⲧ">>, <<"Ⲩ", "ⲩ">>, <<"Ⲫ", "ⲫ">>,
          <<"Ⲭ", "ⲭ">>, <<"Ⲯ", "ⲯ">>, <<"Ⲱ", "ⲱ">>, <<"Ⲳ", "ⲳ">>,
          <<"Ⲵ", "ⲵ">>, <<"Ⲷ", "ⲷ">>, <<"Ⲹ", "ⲹ">>, <<"Ⲻ", "ⲻ">>,
          <<"Ⲽ", "ⲽ">>, <<"Ⲿ", "ⲿ">>, <<"Ⳁ", "ⳁ">>, <<"Ⳃ", "ⳃ">>,
          <<"Ⳅ", "ⳅ">>, <<"Ⳇ", "ⳇ">>, <<"Ⳉ", "ⳉ">>, <<"Ⳋ", "ⳋ">>,
          <<"Ⳍ", "ⳍ">>, <<"Ⳏ", "ⳏ">>, <<"Ⳑ", "ⳑ">>, <<"Ⳓ", "ⳓ">>,
          <<"Ⳕ", "ⳕ">>, <<"Ⳗ", "ⳗ">>, <<"Ⳙ", "ⳙ">>, <<"Ⳛ", "ⳛ">>,
          <<"Ⳝ", "ⳝ">>, <<"Ⳟ", "ⳟ">>, <<"Ⳡ", "ⳡ">>, <<"Ⳣ", "ⳣ">>,
          <<"Ⳬ", "ⳬ">>, <<"Ⳮ", "ⳮ">>, <<"Ⳳ", "ⳳ">>, <<"Ꚁ", "ꚁ">>,
          <<"Ꚃ", "ꚃ">>, <<"Ꚅ", "ꚅ">>, <<"Ꚇ", "ꚇ">>, <<"Ꚉ", "ꚉ">>,
          <<"Ꚋ", "ꚋ">>, <<"Ꚍ", "ꚍ">>, <<"Ꚏ", "ꚏ">>, <<"Ꚑ", "ꚑ">>,
          <<"Ꚓ", "ꚓ">>, <<"Ꚕ", "ꚕ">>, <<"Ꚗ", "ꚗ">>, <<"Ꚙ", "ꚙ">>,
          <<"Ꚛ", "ꚛ">>, <<"Ꞁ", "ꞁ">>, <<"Ꞃ", "ꞃ">>, <<"Ꞅ", "ꞅ">>,
          <<"Ꞇ", "ꞇ">>, <<"Ꞌ", "ꞌ">>, <<"Ꞑ", "ꞑ">>, <<"Ꞓ", "ꞓ">>,
          <<"Ꞗ", "ꞗ">>, <<"Ꞙ", "ꞙ">>, <<"Ꞛ", "ꞛ">>, <<"Ꞝ", "ꞝ">>,
          <<"Ꞟ", "ꞟ">>, <<"Ꞡ", "ꞡ">>, <<"Ꞣ", "ꞣ">>, <<"Ꞥ", "ꞥ">>,
          <<"Ꞧ", "ꞧ">>, <<"Ꞩ", "ꞩ">>, <<"Ʞ", "ʞ">>, <<"Ʇ", "ʇ">>,
          <<"Ʝ", "ʝ">>, <<"Ꞵ", "ꞵ">>, <<"Ꞷ", "ꞷ">>, <<"Ꞹ", "ꞹ">>,
          <<"Ꞻ", "ꞻ">>, <<"Ꞽ", "ꞽ">>, <<"Ꞿ", "ꞿ">>, <<"Ꟁ", "ꟁ">>,
          <<"Ꟃ", "ꟃ">>, <<"Ꞔ", "ꞔ">>, <<"Ʂ", "ʂ">>, <<"Ᶎ", "ᶎ">>,
          <<"Ꟈ", "ꟈ">>, <<"Ꟊ", "ꟊ">>, <<"Ꟑ", "ꟑ">>, <<"Ꟗ", "ꟗ">>,
          <<"Ꟙ", "ꟙ">>, <<"Ꟶ", "ꟶ">>,
          <<"Ɓ", "U+0253">>, <<"Ɔ", "U+0254">>, <<"Ɖ", "U+0256">>, <<"Ɗ", "U+0257">>,
          <<"Ə", "U+0259">>, <<"Ɛ", "U+025B">>, <<"Ɠ", "U+0260">>, <<"Ɣ", "U+0263">>,
          <<"Ɩ", "U+0269">>, <<"Ɨ", "U+0268">>, <<"Ɯ", "U+026F">>, <<"Ɲ", "U+0272">>,
          <<"Ɵ", "U+0275">>, <<"Ͻ", "U+037B">>, <<"Ͼ", "U+037C">>, <<"Ͽ", "U+037D">>,
          <<"Ⴀ", "U+2D00">>, <<"Ⴁ", "U+2D01">>, <<"Ⴂ", "U+2D02">>, <<"Ⴃ", "U+2D03">>,
          <<"Ⴄ", "U+2D04">>, <<"Ⴅ", "U+2D05">>, <<"Ⴆ", "U+2D06">>, <<"Ⴇ", "U+2D07">>,
          <<"Ⴈ", "U+2D08">>, <<"Ⴉ", "U+2D09">>, <<"Ⴊ", "U+2D0A">>, <<"Ⴋ", "U+2D0B">>,
          <<"Ⴌ", "U+2D0C">>, <<"Ⴍ", "U+2D0D">>, <<"Ⴎ", "U+2D0E">>, <<"Ⴏ", "U+2D0F">>,
          <<"Ⴐ", "U+2D10">>, <<"Ⴑ", "U+2D11">>, <<"Ⴒ", "U+2D12">>, <<"Ⴓ", "U+2D13">>,
          <<"Ⴔ", "U+2D14">>, <<"Ⴕ", "U+2D15">>, <<"Ⴖ", "U+2D16">>, <<"Ⴗ", "U+2D17">>,
          <<"Ⴘ", "U+2D18">>, <<"Ⴙ", "U+2D19">>, <<"Ⴚ", "U+2D1A">>, <<"Ⴛ", "U+2D1B">>,
          <<"Ⴜ", "U+2D1C">>, <<"Ⴝ", "U+2D1D">>, <<"Ⴞ", "U+2D1E">>, <<"Ⴟ", "U+2D1F">>,
          <<"Ⴠ", "U+2D20">>, <<"Ⴡ", "U+2D21">>, <<"Ⴢ", "U+2D22">>, <<"Ⴣ", "U+2D23">>,
          <<"Ⴤ", "U+2D24">>, <<"Ⴥ", "U+2D25">>, <<"Ⴧ", "U+2D27">>, <<"Ⴭ", "U+2D2D">>,
          <<"Ꭰ", "U+AB70">>, <<"Ꭱ", "U+AB71">>, <<"Ꭲ", "U+AB72">>, <<"Ꭳ", "U+AB73">>,
          <<"Ꭴ", "U+AB74">>, <<"Ꭵ", "U+AB75">>, <<"Ꭶ", "U+AB76">>, <<"Ꭷ", "U+AB77">>,
          <<"Ꭸ", "U+AB78">>, <<"Ꭹ", "U+AB79">>, <<"Ꭺ", "U+AB7A">>, <<"Ꭻ", "U+AB7B">>,
          <<"Ꭼ", "U+AB7C">>, <<"Ꭽ", "U+AB7D">>, <<"Ꭾ", "U+AB7E">>, <<"Ꭿ", "U+AB7F">>,
          <<"Ὰ", "U+1F70">>, <<"Ά", "U+1F71">>, <<"Ὲ", "U+1F72">>, <<"Έ", "U+1F73">>,
          <<"Ὴ", "U+1F74">>, <<"Ή", "U+1F75">>, <<"Ὶ", "U+1F76">>, <<"Ί", "U+1F77">>,
          <<"Ὺ", "U+1F7A">>, <<"Ύ", "U+1F7B">>, <<"Ὸ", "U+1F78">>, <<"Ό", "U+1F79">>,
          <<"Ὼ", "U+1F7C">>, <<"Ώ", "U+1F7D">>, <<"Ɥ", "U+0265">>, <<"Ɦ", "U+0266">>,
          <<"Ɜ", "U+025C">>, <<"Ɡ", "U+0261">>, <<"Ɬ", "U+026C">>, <<"Ɪ", "U+026A">>,
          <<"Ꭓ", "U+AB53">> }
    IN  [c \in {p[1] : p \in pairs} |-> (CHOOSE p \in pairs : p[1] = c)[2]]

\* strings.ToLower
ToLower(s) == [i \in 1..Len(s) |-> IF s[i] \in DOMAIN LowerOf THEN LowerOf[s[i]] ELSE s[i]]

RECURSIVE TrimLeft(_)
TrimLeft(s) == IF s # <<>> /\ Head(s) \in WhiteSpace THEN TrimLeft(Tail(s)) ELSE s

RECURSIVE TrimRight(_)
TrimRight(s) ==
    IF s # <<>> /\ s[Len(s)] \in WhiteSpace THEN TrimRight(SubSeq(s, 1, Len(s) - 1)) ELSE s

\* strings.TrimSpace
TrimSpace(s) == TrimRight(TrimLeft(s))

\* does t occur in s at position i
OccursAt(s, t, i) == /\ i + Len(t) - 1 <= Len(s)
                     /\ \A k \in 1..Len(t) : s[i + k - 1] = t[k]

\* strings.Contains
Contains(s, t) == \E i \in 1..(Len(s) + 1) : OccursAt(s, t, i)

\* strings.ReplaceAll for a non-empty old: leftmost, non-overlapping, one pass
RECURSIVE ReplaceFrom(_, _, _, _)
ReplaceFrom(s, old, new, i) ==
    IF i > Len(s) THEN <<>>
    ELSE IF OccursAt(s, old, i)
         THEN new \o ReplaceFrom(s, old, new, i + Len(old))
         ELSE <<s[i]>> \o ReplaceFrom(s, old, new, i + 1)

ReplaceAll(s, old, new) == ReplaceFrom(s, old, new, 1)

\* the pieces of s between the occurrences of the separator character
RECURSIVE SplitFrom(_, _, _, _)
SplitFrom(s, sep, i, cur) ==
    IF i > Len(s) THEN <<cur>>
    ELSE IF s[i] = sep THEN <<cur>> \o SplitFrom(s, sep, i + 1, <<>>)
         ELSE SplitFrom(s, sep, i + 1, Append(cur, s[i]))

Split(s, sep) == SplitFrom(s, sep, 1, <<>>)

\* ------------------------------------------------------------------------
\* Validation
\* ------------------------------------------------------------------------

\* ^[first][interior]*[last]$ with first and last in Alnum: at least two
\* characters, the first and the last alphanumeric, the rest in the class
MatchesBounded(s, interior) ==
    /\ Len(s) >= 2
    /\ s[1] \in Alnum
    /\ s[Len(s)] \in Alnum
    /\ \A i \in 2..(Len(s) - 1) : s[i] \in interior

\* a mutant that takes the class of the module path segments for the name
projectNamePatternLoose(s) == MatchesBounded(s, SegInterior)

projectNamePattern(s) == MatchesBounded(s, NameInterior)

\* a mutant without the anchor at the end: what follows the third segment
\* is not looked at
modulePathPatternOpen(s) ==
    LET segs == Split(s, "/")
    IN  /\ Len(segs) >= 3
        /\ MatchesBounded(segs[1], SegInterior)
        /\ MatchesBounded(segs[2], SegInterior)
        /\ MatchesBounded(segs[3], NameInterior)

modulePathPattern(s) ==
    LET segs == Split(s, "/")
    IN  /\ Len(segs) = 3
        /\ MatchesBounded(segs[1], SegInterior)
        /\ MatchesBounded(segs[2], SegInterior)
        /\ MatchesBounded(segs[3], NameInterior)

\* a mutant that accepts every name
isValidProjectNameAny(name) == TRUE

isValidProjectName(name) == projectNamePattern(name) /\ Len(name) > 0

\* a mutant that holds every segment to the rule of the last one
isValidModulePathStrict(path) ==
    LET segs == Split(path, "/")
    IN  /\ Len(segs) = 3
        /\ \A k \in 1..3 : MatchesBounded(segs[k], NameInterior)

isValidModulePath(path) == modulePathPattern(path)

\* ------------------------------------------------------------------------
\* Prompts.  A read is [ok |-> TRUE, line |-> l] for a newline-terminated
\* line and [ok |-> FALSE] at the end of the input (ReadString's error).
\* ------------------------------------------------------------------------

ReadString(in, n) ==
    IF n < Len(in) THEN [ok |-> TRUE, line |-> in[n + 1]]
    ELSE [ok |-> FALSE, line |-> <<>>]

prompt(r) == IF ~r.ok THEN <<>> ELSE TrimSpace(r.line)

\* a mutant that returns the empty string on a read error, as prompt does
promptWithDefaultEmptyOnError(r, defaultValue) ==
    IF ~r.ok THEN <<>>
    ELSE IF TrimSpace(r.line) = <<>> THEN defaultValue
    ELSE TrimSpace(r.line)

promptWithDefault(r, defaultValue) ==
    IF ~r.ok THEN defaultValue
    ELSE IF TrimSpace(r.line) = <<>> THEN defaultValue
    ELSE TrimSpace(r.line)

\* a mutant prompt that takes an empty or missing answer as yes
promptBoolYes(r, defaultValue) ==
    IF ~r.ok THEN TRUE
    ELSE LET answer == TrimSpace(ToLower(r.line))
         IN  IF answer = <<>> THEN TRUE
             ELSE answer = <<"y">> \/ answer = <<"y", "e", "s">>

\* a mutant that returns the default for an answer that is not a yes
promptBoolSticky(r, defaultValue) ==
    IF ~r.ok THEN defaultValue
    ELSE LET answer == TrimSpace(ToLower(r.line))
         IN  IF answer = <<"y">> \/ answer = <<"y", "e", "s">> THEN TRUE
             ELSE defaultValue

promptBool(r, defaultValue) ==
    IF ~r.ok THEN defaultValue
    ELSE LET answer == TrimSpace(ToLower(r.line))
         IN  IF answer = <<>> THEN defaultValue
             ELSE answer = <<"y">> \/ answer = <<"y", "e", "s">>

\* ------------------------------------------------------------------------
\* Program constants
\* ------------------------------------------------------------------------

defaultLicense == <<"M", "I", "T">>

defaultAuthor == <<"Y", "o", "u", "r", " ", "N", "a", "m", "e">>

defaultEmail == <<"y", "o", "u", "r", ".", "e", "m", "a", "i", "l", "@",
                  "e", "x", "a", "m", "p", "l", "e", ".", "c", "o", "m">>

defaultDescription == <<"A Go application built from go-template-project">>

\* "github.com/your-org/", the prefix of the default module path
defaultModulePrefix == <<"g", "i", "t", "h", "u", "b", ".", "c", "o", "m", "/",
                         "y", "o", "u", "r", "-", "o", "r", "g", "/">>

\* "github.com/your-org/go-template-project", the placeholder module path
oldPath == defaultModulePrefix \o
           <<"g", "o", "-", "t", "e", "m", "p", "l", "a", "t", "e", "-",
             "p", "r", "o", "j", "e", "c", "t">>

\* ------------------------------------------------------------------------
\* The file tree.  A tree is [dirs |-> the component directories that
\* exist, files |-> the content of every file that exists].
\* ------------------------------------------------------------------------

ComponentDirs == {"cmd/cli", "cmd/server", "internal/handlers", "cmd/worker",
                  "docs", "tests"}

AllDirs == ComponentDirs \cup {"scripts"}

\* the files of the template that lie below each directory
Under == [d \in AllDirs |->
    CASE d = "cmd/cli"           -> {"cmd/cli/main.go"}
      [] d = "cmd/server"        -> {"cmd/server/main.go"}
      [] d = "internal/handlers" -> {"internal/handlers/handlers.go"}
      [] d = "cmd/worker"        -> {"cmd/worker/main.go"}
      [] d = "docs"              -> {"docs/content/_index.md",
                                     "docs/content/docs/getting-started.md"}
      [] d = "tests"             -> {"tests/e2e/cli_e2e_test.go",
                                     "tests/e2e/init_e2e_test.go",
                                     "tests/e2e/server_e2e_test.go",
                                     "tests/e2e/worker_e2e_test.go"}
      [] d = "scripts"           -> {"scripts/init.go", "scripts/smoke-test.sh"}]

\* the .go files in the order filepath.Walk visits them (lexical)
GoFilesInWalkOrder ==
    <<"cmd/cli/main.go", "cmd/server/main.go", "cmd/worker/main.go",
      "internal/app/app.go", "internal/handlers/handlers.go", "scripts/init.go",
      "tests/e2e/cli_e2e_test.go", "tests/e2e/init_e2e_test.go",
      "tests/e2e/server_e2e_test.go", "tests/e2e/worker_e2e_test.go">>

Exists(tree, p) == p \in tree.dirs \/ p \in DOMAIN tree.files

\* the other entries filepath.Walk visits: before[k] are the directories
\* and the files of another kind that it visits after the (k-1)-th .go file
\* and before the k-th, and the last set those after the last .go file;
\* "." is the root of the walk.  Visits: the walk has an entry of the tree
\* to visit at position k.
Visits(tree, k) ==
    LET before ==
          <<{".", "README.md", "cmd/cli"},
            {"cmd/server"},
            {"cmd/worker"},
            {"docs", "docs/content/_index.md",
             "docs/content/docs/getting-started.md", "go.mod"},
            {"internal/handlers"},
            {"scripts"},
            {"scripts/smoke-test.sh", "tests"},
            {}, {}, {}, {}>>
    IN  \E e \in before[k] : e = "." \/ Exists(tree, e)

Restrict(f, S) == [x \in S |-> f[x]]

\* os.RemoveAll: removes the directory and all below it; nil when missing
RemoveAll(tree, d) ==
    [dirs |-> tree.dirs \ {d},
     files |-> Restrict(tree.files, DOMAIN tree.files \ Under[d])]

\* os.RemoveAll returning an error: the directory stays, with its files
\* (emptied = FALSE) or without them (emptied = TRUE)
RemoveAllError(tree, d, emptied) ==
    IF emptied /\ d \in tree.dirs
    THEN [dirs |-> tree.dirs,
          files |-> Restrict(tree.files, DOMAIN tree.files \ Under[d])]
    ELSE tree

\* os.Remove of a file
Remove(tree, p) ==
    [dirs |-> tree.dirs, files |-> Restrict(tree.files, DOMAIN tree.files \ {p})]

\* os.WriteFile / os.Create + write: creates or replaces the content
WriteFile(tree, p, content) ==
    [dirs |-> tree.dirs, files |-> (p :> content) @@ tree.files]

\* a write that failed after the file was opened with O_TRUNC
Truncate(tree, p) == WriteFile(tree, p, <<>>)

\* the template as cloned
FullTree ==
    [dirs |-> AllDirs,
     files |->
        ("go.mod" :> (<<"module ">> \o oldPath \o <<"\n\ngo 1.23\n">>)) @@
        ("README.md" :> <<"# Go Template Project\n">>) @@
        ("cmd/cli/main.go" :>
            (<<"package main\nimport \"">> \o oldPath \o <<"/internal/app\"\n">>)) @@
        ("cmd/server/main.go" :>
            (<<"package main\nimport \"">> \o oldPath \o <<"/internal/config\"\n\"">>
             \o oldPath \o <<"/internal/handlers\"\n">>)) @@
        ("cmd/worker/main.go" :>
            (<<"package main\nimport \"">> \o oldPath \o <<"/internal/config\"\n">>)) @@
        ("internal/app/app.go" :> <<"package app\n">>) @@
        ("internal/handlers/handlers.go" :> <<"package handlers\n">>) @@
        ("scripts/init.go" :>
            (<<"package main\noldPath := \"">> \o oldPath \o <<"\"\n">>)) @@
        ("scripts/smoke-test.sh" :> <<"#!/bin/bash\n">>) @@
        ("tests/e2e/cli_e2e_test.go" :> <<"package e2e // cli\n">>) @@
        ("tests/e2e/init_e2e_test.go" :> <<"package e2e // init\n">>) @@
        ("tests/e2e/server_e2e_test.go" :> <<"package e2e // server\n">>) @@
        ("tests/e2e/worker_e2e_test.go" :> <<"package e2e // worker\n">>) @@
        ("docs/content/_index.md" :> <<"title: Go Template Project\n">>) @@
        ("docs/content/docs/getting-started.md" :> <<"title: Getting Started\n">>)]

\* the copy the init tests make (copyTemplateFiles): go.mod and the cmd,
\* internal, scripts and docs directories, but neither README.md nor tests
TestCopyTree ==
    LET t == RemoveAll(FullTree, "tests") IN Remove(t, "README.md")

InitialTrees == {FullTree, TestCopyTree}

\* ------------------------------------------------------------------------
\* The mutation steps, as functions of the configuration, the tree and the
\* outcome of the operating-system calls they make.  Each yields the tree
\* it leaves and err, "nil" or "error".
\* ------------------------------------------------------------------------

Ok(tree) == [tree |-> tree, err |-> "nil"]

Failed(tree) == [tree |-> tree, err |-> "error"]

\* a mutant that writes the placeholder path back
goModContentPlaceholder(config) ==
    <<"module ">> \o oldPath \o <<"\n\ngo 1.23\n">>

goModContent(config) ==
    <<"module ">> \o config.ModulePath \o
    <<"\n\ngo 1.23\n\nrequire (\n\t// Runtime dependencies will be added as needed\n)\n">>

updateGoMod(config, tree, outcome) ==
    CASE outcome = "ok"         -> Ok(WriteFile(tree, "go.mod", goModContent(config)))
      [] outcome = "open_fail"  -> Failed(tree)
      [] outcome = "write_fail" -> Failed(Truncate(tree, "go.mod"))

\* a mutant of the walk that leaves the files under scripts alone
WalkFromSkippingScripts(config, tree, i, failAt, kind) ==
    IF failAt # 0 THEN Failed(tree)
    ELSE Ok([dirs |-> tree.dirs,
             files |-> [p \in DOMAIN tree.files |->
                IF /\ \E k \in i..Len(GoFilesInWalkOrder) : GoFilesInWalkOrder[k] = p
                   /\ p # "scripts/init.go"
                THEN ReplaceAll(tree.files[p], oldPath, config.ModulePath)
                ELSE tree.files[p]]])

\* the walk of updateImportPaths from the i-th .go file on; the call on
\* file failAt fails (failAt = 0: none does), as a read or as a write, or
\* the walk itself fails there (walk_fail): filepath.Walk hands the
\* callback the error of the Lstat of an entry or of the ReadDir of a
\* directory, at an entry before the failAt-th .go file, at that file, or
\* (failAt = Len(GoFilesInWalkOrder) + 1) at an entry after the last one,
\* and the callback returns it
RECURSIVE WalkFrom(_, _, _, _, _)
WalkFrom(config, tree, i, failAt, kind) ==
    IF kind = "walk_fail" /\ i = failAt /\ Visits(tree, i) THEN Failed(tree)
    ELSE IF i > Len(GoFilesInWalkOrder) THEN Ok(tree)
    ELSE LET path == GoFilesInWalkOrder[i] IN
         IF path \notin DOMAIN tree.files
         THEN WalkFrom(config, tree, i + 1, failAt, kind)
         ELSE LET content == tree.files[path]
                  newContent == ReplaceAll(content, oldPath, config.ModulePath)
              IN  IF i = failAt
                  THEN IF kind = "write_fail" /\ newContent # content
                       THEN Failed(Truncate(tree, path))
                       ELSE Failed(tree)
                  ELSE IF newContent # content
                       THEN WalkFrom(config, WriteFile(tree, path, newContent),
                                     i + 1, failAt, kind)
                       ELSE WalkFrom(config, tree, i + 1, failAt, kind)

\* a replacement of the first occurrence only
ReplaceFirst(s, old, new) ==
    LET at == {i \in 1..Len(s) : OccursAt(s, old, i)}
    IN  IF at = {} THEN s
        ELSE LET i == CHOOSE j \in at : \A k \in at : j <= k
             IN  SubSeq(s, 1, i - 1) \o new \o SubSeq(s, i + Len(old), Len(s))

\* a mutant that rewrites only the first occurrence in each file
updateImportPathsFirstOnly(config, tree, failAt, kind) ==
    IF failAt # 0 THEN WalkFrom(config, tree, 1, failAt, kind)
    ELSE Ok([dirs |-> tree.dirs,
             files |-> [p \in DOMAIN tree.files |->
                IF \E i \in 1..Len(GoFilesInWalkOrder) : GoFilesInWalkOrder[i] = p
                THEN ReplaceFirst(tree.files[p], oldPath, config.ModulePath)
                ELSE tree.files[p]]])

updateImportPaths(config, tree, failAt, kind) == WalkFrom(config, tree, 1, failAt, kind)

\* a mutant that removes the handlers only when the server is kept
removeTargetsSwapped(config) ==
    (IF ~config.EnableCLI THEN <<"cmd/cli">> ELSE <<>>) \o
    (IF ~config.EnableServer THEN <<"cmd/server">> ELSE <<"internal/handlers">>) \o
    (IF ~config.EnableWorker THEN <<"cmd/worker">> ELSE <<>>) \o
    (IF ~config.EnableDocs THEN <<"docs">> ELSE <<>>) \o
    (IF ~config.EnableE2ETests THEN <<"tests">> ELSE <<>>)

\* the directories removeUnwantedComponents removes, in the order it does
removeTargets(config) ==
    (IF ~config.EnableCLI THEN <<"cmd/cli">> ELSE <<>>) \o
    (IF ~config.EnableServer THEN <<"cmd/server", "internal/handlers">> ELSE <<>>) \o
    (IF ~config.EnableWorker THEN <<"cmd/worker">> ELSE <<>>) \o
    (IF ~config.EnableDocs THEN <<"docs">> ELSE <<>>) \o
    (IF ~config.EnableE2ETests THEN <<"tests">> ELSE <<>>)

\* a mutant for which a target that is already missing is an error
RECURSIVE RemoveFromStrict(_, _, _, _, _)
RemoveFromStrict(tree, targets, i, failAt, emptied) ==
    IF i > Len(targets) THEN Ok(tree)
    ELSE IF i = failAt THEN Failed(RemoveAllError(tree, targets[i], emptied))
    ELSE IF targets[i] \notin tree.dirs THEN Failed(tree)
    ELSE RemoveFromStrict(RemoveAll(tree, targets[i]), targets, i + 1, failAt, emptied)

RECURSIVE RemoveFrom(_, _, _, _, _)
RemoveFrom(tree, targets, i, failAt, emptied) ==
    IF i > Len(targets) THEN Ok(tree)
    ELSE IF i = failAt THEN Failed(RemoveAllError(tree, targets[i], emptied))
    ELSE RemoveFrom(RemoveAll(tree, targets[i]), targets, i + 1, failAt, emptied)

\* the RemoveAll call on the failAt-th target fails (failAt = 0: none does)
removeUnwantedComponents(config, tree, failAt, emptied) ==
    RemoveFrom(tree, removeTargets(config), 1, failAt, emptied)

generateRunCommands(config) ==
    LET commands ==
            (IF config.EnableCLI THEN <<"   make run-cli      # Run CLI application\n">>
             ELSE <<>>) \o
            (IF config.EnableServer THEN <<"   make run-server   # Run HTTP server\n">>
             ELSE <<>>) \o
            (IF config.EnableWorker THEN <<"   make run-worker   # Run background worker\n">>
             ELSE <<>>)
    IN  IF commands = <<>> THEN <<"go run ./...">> ELSE commands

generateComponentDescription(config) ==
    LET components ==
            (IF config.EnableCLI THEN <<"**CLI Application**">> ELSE <<>>) \o
            (IF config.EnableServer THEN <<"**HTTP Server**">> ELSE <<>>) \o
            (IF config.EnableWorker THEN <<"**Background Worker**">> ELSE <<>>)
    IN  IF Len(components) = 0 THEN <<"This project provides a foundation">>
        ELSE IF Len(components) = 1 THEN <<"This project includes:\n\n- ">> \o components
        ELSE <<"This project includes multiple components:\n\n">> \o components

generateTestingFeatures(config) ==
    IF config.EnableE2ETests THEN <<", and E2E">> ELSE <<>>

generateDocumentationFeature(config) ==
    IF config.EnableDocs THEN <<"\n- **Documentation**">> ELSE <<>>

generateTestingSection(config) ==
    IF ~config.EnableE2ETests THEN <<>> ELSE <<"## Testing Strategy\n">>

updateIndexMarkdown(config) ==
    <<"---\ntitle: \"">> \o config.ProjectName \o
    <<"\"\nlinkTitle: \"">> \o config.ProjectName \o
    <<"\"\ndescription: \"">> \o config.Description \o
    <<"\"\n---\n\n# ">> \o config.ProjectName \o <<"\n\n">> \o config.Description \o
    <<"\n\n## Quick Start\n">> \o generateRunCommands(config) \o
    <<"## Features\n">> \o generateTestingFeatures(config) \o
    <<"- CI/CD Ready">> \o generateDocumentationFeature(config) \o
    <<"## Architecture\n">> \o generateComponentDescription(config) \o
    <<"## Getting Started\n">> \o generateRunCommands(config) \o
    <<"## License\n\nThis project is available under the ">> \o config.License \o
    <<" License.\n">>

updateGettingStartedMarkdown(config) ==
    <<"---\ntitle: \"Getting Started\"\ndescription: \"Complete setup guide for ">> \o
    config.ProjectName \o
    <<"\"\n---\n\nThis guide will help you set up and start developing with ">> \o
    config.ProjectName \o <<".\n\n## Prerequisites\n">> \o
    generateRunCommands(config) \o <<"## Development Workflow\n">> \o
    generateRunCommands(config) \o generateTestingSection(config) \o
    <<"## Getting Help\n">>

\* a mutant that removes the test files of the components that are kept
cleanupOpsKept(config, indexFirst) ==
    LET index == [op |-> "updateDocumentationFile", path |-> "docs/content/_index.md",
                  content |-> updateIndexMarkdown(config)]
        start == [op |-> "updateDocumentationFile",
                  path |-> "docs/content/docs/getting-started.md",
                  content |-> updateGettingStartedMarkdown(config)]
        rm(p) == [op |-> "removeFileIfExists", path |-> p, content |-> <<>>]
    IN  <<rm("tests/e2e/init_e2e_test.go")>> \o
        (IF config.EnableE2ETests
         THEN (IF config.EnableCLI THEN <<rm("tests/e2e/cli_e2e_test.go")>> ELSE <<>>) \o
              (IF config.EnableServer THEN <<rm("tests/e2e/server_e2e_test.go")>>
               ELSE <<>>) \o
              (IF config.EnableWorker THEN <<rm("tests/e2e/worker_e2e_test.go")>>
               ELSE <<>>)
         ELSE <<>>) \o
        (IF config.EnableDocs
         THEN IF indexFirst THEN <<index, start>> ELSE <<start, index>>
         ELSE <<>>)

\* the file operations of cleanupTemplateArtifacts in the order it makes
\* them; indexFirst is the order in which the map of documentation files
\* is iterated
cleanupOps(config, indexFirst) ==
    LET index == [op |-> "updateDocumentationFile", path |-> "docs/content/_index.md",
                  content |-> updateIndexMarkdown(config)]
        start == [op |-> "updateDocumentationFile",
                  path |-> "docs/content/docs/getting-started.md",
                  content |-> updateGettingStartedMarkdown(config)]
        rm(p) == [op |-> "removeFileIfExists", path |-> p, content |-> <<>>]
    IN  <<rm("tests/e2e/init_e2e_test.go")>> \o
        (IF config.EnableE2ETests
         THEN (IF ~config.EnableCLI THEN <<rm("tests/e2e/cli_e2e_test.go")>> ELSE <<>>) \o
              (IF ~config.EnableServer THEN <<rm("tests/e2e/server_e2e_test.go")>>
               ELSE <<>>) \o
              (IF ~config.EnableWorker THEN <<rm("tests/e2e/worker_e2e_test.go")>>
               ELSE <<>>)
         ELSE <<>>) \o
        (IF config.EnableDocs
         THEN IF indexFirst THEN <<index, start>> ELSE <<start, index>>
         ELSE <<>>)

removeFileIfExists(tree, path) ==
    IF path \in DOMAIN tree.files THEN Remove(tree, path) ELSE tree

updateDocumentationFile(tree, path, content) ==
    IF path \notin DOMAIN tree.files THEN tree ELSE WriteFile(tree, path, content)

RECURSIVE CleanupFrom(_, _, _, _, _)
CleanupFrom(tree, ops, i, failAt, kind) ==
    IF i > Len(ops) THEN Ok(tree)
    ELSE LET o == ops[i] IN
         IF i = failAt
         THEN IF /\ o.op = "updateDocumentationFile"
                 /\ kind = "write_fail"
                 /\ o.path \in DOMAIN tree.files
              THEN Failed(Truncate(tree, o.path))
              ELSE Failed(tree)
         ELSE IF o.op = "removeFileIfExists"
              THEN CleanupFrom(removeFileIfExists(tree, o.path), ops, i + 1, failAt, kind)
              ELSE CleanupFrom(updateDocumentationFile(tree, o.path, o.content),
                               ops, i + 1, failAt, kind)

\* the failAt-th file operation fails (failAt = 0: none does)
cleanupTemplateArtifacts(config, tree, failAt, kind, indexFirst) ==
    CleanupFrom(tree, cleanupOps(config, indexFirst), 1, failAt, kind)

\* the README template executed on the configuration
readmeTemplate(config) ==
    <<"# ">> \o config.ProjectName \o <<"\n\n> ">> \o config.Description \o
    <<"\n\nBuilt from the [go-template-project](https://">> \o oldPath \o
    <<")\nstarter template\n\n## Quick Start\n\ngit clone ">> \o config.GitRemote \o
    <<"\ncd ">> \o config.ProjectName \o
    <<"\nmake setup\nmake check\n">> \o
    (IF config.EnableCLI THEN <<"go run ./cmd/cli">> ELSE <<>>) \o <<"\n">> \o
    (IF config.EnableServer THEN <<"go run ./cmd/server">> ELSE <<>>) \o
    <<"\n## What You Get\n## Available Commands\n">> \o
    (IF config.EnableCLI THEN <<"| CLI | make run-cli |">> ELSE <<>>) \o <<"\n">> \o
    (IF config.EnableServer THEN <<"| Server | make run-server |">> ELSE <<>>) \o
    <<"\n">> \o
    (IF config.EnableWorker THEN <<"| Worker | make run-worker |">> ELSE <<>>) \o
    <<"\n| All | make build |\n| Quality | make check |\n">> \o
    (IF config.EnableE2ETests THEN <<"| E2E Tests | make test-e2e |">> ELSE <<>>) \o
    <<"\n| Docker | make docker-dev |\n\n## Project Structure\n\n">> \o
    config.ProjectName \o <<"/\n|-- cmd/\n">> \o
    (IF config.EnableCLI THEN <<"|   |-- cli/">> ELSE <<>>) \o <<"\n">> \o
    (IF config.EnableServer THEN <<"|   |-- server/">> ELSE <<>>) \o <<"\n">> \o
    (IF config.EnableWorker THEN <<"|   |-- worker/">> ELSE <<>>) \o
    <<"\n|-- internal/\n|   |-- app/\n|   |-- config/\n">> \o
    (IF config.EnableServer THEN <<"|   |-- handlers/">> ELSE <<>>) \o
    <<"\n|-- docs/\n\n## Development Workflow\n## Configuration\n">> \o
    (IF config.EnableServer THEN <<"| PORT | 8080 |">> ELSE <<>>) \o <<"\n">> \o
    (IF config.EnableServer THEN <<"| HOST | 0.0.0.0 |">> ELSE <<>>) \o
    <<"\n| DEBUG | false |\n| DATABASE_URL | |\n\n">> \o
    (IF config.EnableServer THEN <<"## API Endpoints\n">> ELSE <<>>) \o
    <<"\n\n## License\n\n">> \o config.License \o
    <<" - see LICENSE file for details.\n\n---\n\n*Generated from [go-template-project](https://">>
    \o oldPath \o <<")*\n">>

ReadmeOutcomes == {"ok", "create_fail", "execute_fail"}

\* a mutant that renders the default license whatever the configuration
generateReadmeFixedLicense(config, tree, outcome) ==
    CASE outcome = "ok" ->
            Ok(WriteFile(tree, "README.md",
                         readmeTemplate([config EXCEPT !.License = defaultLicense])))
      [] outcome = "create_fail" -> Failed(tree)
      [] outcome = "execute_fail" -> Failed(Truncate(tree, "README.md"))

\* os.Create fails, or Execute fails on a write after the file was truncated
generateReadme(config, tree, outcome) ==
    CASE outcome = "ok" -> Ok(WriteFile(tree, "README.md", readmeTemplate(config)))
      [] outcome = "create_fail" -> Failed(tree)
      [] outcome = "execute_fail" -> Failed(Truncate(tree, "README.md"))

\* removeEmptyDirectory: nil when missing, else os.Remove, which succeeds
\* only on an empty directory
removeEmptyDirectory(tree, d) ==
    IF d \notin tree.dirs THEN Ok(tree)
    ELSE IF Under[d] \cap DOMAIN tree.files = {}
         THEN Ok([dirs |-> tree.dirs \ {d}, files |-> tree.files])
         ELSE Failed(tree)

\* ------------------------------------------------------------------------
\* Inputs: the lines of standard input, the environment
\* ------------------------------------------------------------------------

ExampleProject == <<"e", "x", "a", "m", "p", "l", "e", "-", "p", "r", "o", "j", "e", "c", "t">>

ExampleModule == <<"g", "i", "t", "h", "u", "b", ".", "c", "o", "m", "/", "e", "x", "a", "m",
        "p", "l", "e", "/", "e", "x", "a", "m", "p", "l", "e", "-", "p", "r", "o", "j", "e",
        "c", "t">>

TestProject == <<"t", "e", "s", "t", "-", "p", "r", "o", "j", "e", "c", "t">>

TestModule == <<"g", "i", "t", "h", "u", "b", ".", "c", "o", "m", "/", "t", "e", "s", "t", "-",
        "o", "r", "g", "/", "t", "e", "s", "t", "-", "p", "r", "o", "j", "e", "c", "t">>

Yes == <<"y">>

No == <<"n">>

Empty == <<>>

RemoteUrl == <<"g", "i", "t", "@", "e", "x", "a", "m", "p", "l", "e", ".", "c", "o", "m", ":",
        "o", "r", "g", "/", "a", "b", ".", "g", "i", "t">>

\* the twelve answers of TestInitScriptFileGeneration
FileGenerationInput ==
    <<ExampleProject, ExampleModule, <<"A", "n", " ", "e", "x", "a", "m", "p", "l", "e", " ",
            "p", "r", "o", "j", "e", "c", "t">>, <<"E", "x", "a", "m", "p", "l", "e", " ", "U",
            "s", "e", "r">>,
      <<"u", "s", "e", "r", "@", "e", "x", "a", "m", "p", "l", "e", ".", "c", "o", "m">>,
              <<"M", "I", "T">>, Yes, No, No, Yes, Empty, Yes>>

\* the twelve answers of TestInitScriptBasicFunctionality
BasicFunctionalityInput ==
    <<TestProject, TestModule, <<"A", " ", "t", "e", "s", "t", " ", "p", "r", "o", "j", "e",
            "c", "t", " ", "f", "o", "r", " ", "E", "2", "E", " ", "v", "a", "l", "i", "d",
            "a", "t", "i", "o", "n">>, <<"T", "e", "s", "t", " ", "U", "s", "e", "r">>,
      <<"t", "e", "s", "t", "@", "e", "x", "a", "m", "p", "l", "e", ".", "c", "o", "m">>,
              <<"M", "I", "T">>, Yes, Yes, No, Yes, Empty, Yes>>

\* the input lines considered for the project name
NameLines == {ExampleProject, Empty, <<"1", "2", "3", "-", "i", "n", "v", "a", "l", "i", "d",
        "-", "n", "a", "m", "e">>, <<"-", "a", "b", "c">>, <<"a", "b", "c", "-">>, <<"a">>,
              <<" ">> \o <<"m", "y", "-", "a", "p", "p">> \o <<" ", "\r">>, <<"m", "y", "_",
                      "a", "p", "p">>}

\* the input lines considered for the module path
ModuleLines == {ExampleModule, Empty, <<"i", "n", "v", "a", "l", "i", "d", "-", "m", "o", "d",
        "u", "l", "e", "-", "p", "a", "t", "h", "-", "n", "o", "-", "s", "l", "a", "s", "h">>,
        <<"a", "/", "b">>,
                <<"a", ".", "b", "/", "c", "_", "d", "/", "e", ".", "f">>, <<"e", "x", "a",
                        "m", "p", "l", "e", ".", "c", "o", "m", "/", "o", "r", "g", "/", "a",
                        "b", "/", "c", "d">>}

\* the base names of the working directory considered
CwdBases == {<<"m", "y", "-", "a", "p", "p">>, <<"g", "o", "_", "t", "m", "p">>}

\* the input lines considered for the final confirmation
ConfirmLines == {Yes, No, Empty, <<"y", "e", "s">>, <<"Y", "E", "S">>, <<" ", "Y", " ">>,
        <<"n", "o">>, <<"y", "y">>, <<"y", "e", "s", "!">>,
        <<"", "Y", " ">>, <<"", "y", "e", "s">>}

\* what "git config --global" yields for user.name and user.email: whether
\* the command succeeded, and its output
GitGlobals ==
    {[name |-> [ok |-> FALSE, out |-> <<>>], email |-> [ok |-> FALSE, out |-> <<>>]],
     [name |-> [ok |-> TRUE, out |-> <<"T", "e", "s", "t", " ", "U", "s", "e", "r", "\n">>],
      email |-> [ok |-> TRUE, out |-> <<"t", "@", "e", ".", "x", "\n">>]]}

NoGitGlobal ==
    [name |-> [ok |-> FALSE, out |-> <<>>], email |-> [ok |-> FALSE, out |-> <<>>]]

\* the most lines an input stream has
MaxInputLines == 14

TextAnswers == <<<<"A", "n", " ", "e", "x", "a", "m", "p", "l", "e", " ", "p", "r", "o", "j",
        "e", "c", "t">>, <<"E", "x", "a", "m", "p", "l", "e", " ", "U", "s", "e", "r">>, <<"u",
        "s", "e", "r", "@", "e", "x", "a", "m", "p", "l", "e", ".", "c", "o", "m">>, <<"M",
        "I", "T">>>>

\* inputs that vary the project name and the module path
ValidationInputs ==
    {<<n, m>> \o TextAnswers \o <<Yes, No, No, Yes, Empty, Empty, Yes>> :
        n \in NameLines, m \in ModuleLines}

YesNo(b) == IF b THEN Yes ELSE No

\* inputs that vary the five component answers
FlagInputs ==
    {<<ExampleProject, ExampleModule>> \o TextAnswers \o
     <<YesNo(f[1]), YesNo(f[2]), YesNo(f[3]), YesNo(f[4]), YesNo(f[5]), Empty, Yes>> :
        f \in [1..5 -> BOOLEAN]}

\* inputs that vary the git remote and the confirmation
ConfirmInputs ==
    {<<ExampleProject, ExampleModule>> \o TextAnswers \o
     <<Yes, No, No, Yes, Empty, r, c>> : r \in {Empty, RemoteUrl}, c \in ConfirmLines}

LongInput ==
    <<ExampleProject, ExampleModule>> \o TextAnswers \o
    <<<<"Y", "e", "s">>, <<"N">>, Empty, <<"y">>, <<"n", "o">>, RemoteUrl, <<"y", "e", "s">>,
            Yes, Yes, Yes>>

\* input streams that end early, and longer ones
PrefixInputs == {SubSeq(LongInput, 1, k) : k \in 0..MaxInputLines}

TestInputs == {FileGenerationInput, BasicFunctionalityInput}

Scenario(in, cwd, gg, skip, tree) ==
    [input |-> in, cwdBase |-> cwd, gitGlobal |-> gg, skipGit |-> skip, tree |-> tree]

Scenarios ==
    {Scenario(in, cwd, NoGitGlobal, TRUE, FullTree) :
        in \in ValidationInputs, cwd \in CwdBases}
    \cup {Scenario(in, <<"m", "y", "-", "a", "p", "p">>, NoGitGlobal, skip, tree) :
        in \in FlagInputs, skip \in BOOLEAN, tree \in InitialTrees}
    \cup {Scenario(in, <<"m", "y", "-", "a", "p", "p">>, gg, FALSE, FullTree) :
        in \in ConfirmInputs, gg \in GitGlobals}
    \cup {Scenario(in, cwd, gg, TRUE, TestCopyTree) :
        in \in PrefixInputs \cup TestInputs, cwd \in CwdBases, gg \in GitGlobals}

\* ------------------------------------------------------------------------
\* State
\* ------------------------------------------------------------------------

VARIABLES
    pc,          \* position of main
    input,       \* the lines of standard input
    nread,       \* how many reads gatherProjectInfo has made
    cwdBase,     \* filepath.Base(os.Getwd())
    gitGlobal,   \* the user's global git identity
    skipGit,     \* os.Getenv("SKIP_GIT_INIT") != ""
    config,      \* the ProjectConfig
    fs,          \* the file tree
    fs0,         \* the file tree before the run
    steps,       \* the steps of initializeProject executed so far
    calls,       \* the subprocesses started so far
    warnings,    \* the warnings printed so far
    exitStatus,  \* "running", or the exit status "0" or "1"
    fatal,       \* the message of log.Fatalf, or "none"
    failedStep,  \* the required step that returned an error, or "none"
    gitErr,      \* what initializeGit returned: "none" until it returns
    hookErr,     \* what setupPreCommitHooks returned: "none" until it returns
    commit       \* the commit goroutine, its subprocess and the done channel

vars == <<pc, input, nread, cwdBase, gitGlobal, skipGit, config, fs, fs0, steps,
          calls, warnings, exitStatus, fatal, failedStep, gitErr, hookErr, commit>>

env == <<input, cwdBase, gitGlobal, skipGit, fs0>>

emptyConfig ==
    [ProjectName |-> <<>>, ModulePath |-> <<>>, Description |-> <<>>,
     Author |-> <<>>, Email |-> <<>>, License |-> <<>>,
     EnableCLI |-> FALSE, EnableServer |-> FALSE, EnableWorker |-> FALSE,
     EnableDocs |-> FALSE, EnableE2ETests |-> FALSE, GitRemote |-> <<>>]

\* goroutine: "none" (not launched), "start" (about to start the process),
\* "wait" (in cmd.Wait, waiting for the subprocess), "drain" (in cmd.Wait,
\* the subprocess reaped, waiting for the end of its output), "send"
\* (about to send on done), "end"
\* proc: "none", "running", "exited_ok", "exited_fail", "killed"
\* process: cmd.Process is non-nil;  done: the buffered channel's content
\* pipe: the pipe CombinedOutput reads the output from: "none", "open"
\* (some process holds its write end), "closed"
\* index: the files git add staged
noCommit == [goroutine |-> "none", proc |-> "none", process |-> FALSE,
             result |-> "none", done |-> <<>>, index |-> {}, pipe |-> "none"]

Init ==
    \E sc \in Scenarios :
        /\ pc = "projectName"
        /\ input = sc.input
        /\ nread = 0
        /\ cwdBase = sc.cwdBase
        /\ gitGlobal = sc.gitGlobal
        /\ skipGit = sc.skipGit
        /\ config = emptyConfig
        /\ fs = sc.tree
        /\ fs0 = sc.tree
        /\ steps = <<>>
        /\ calls = <<>>
        /\ warnings = <<>>
        /\ exitStatus = "running"
        /\ fatal = "none"
        /\ failedStep = "none"
        /\ gitErr = "none"
        /\ hookErr = "none"
        /\ commit = noCommit

\* ------------------------------------------------------------------------
\* gatherProjectInfo, one action per prompt
\* ------------------------------------------------------------------------

\* what getGitConfig returns once its subprocess has ended
getGitConfig(key, fallback) ==
    IF ~gitGlobal[key].ok THEN fallback ELSE TrimSpace(gitGlobal[key].out)

\* the subprocesses gatherProjectInfo starts through getGitConfig
GatherCalls == <<"git config --global user.name", "git config --global user.email">>

\* log.Fatalf in main: the message is logged and the process exits with 1
Fatal(msg) ==
    /\ pc' = "exit"
    /\ exitStatus' = "1"
    /\ fatal' = msg

Goto(next) ==
    /\ pc' = next
    /\ UNCHANGED <<exitStatus, fatal>>

\* os.Getwd fails: gatherProjectInfo returns its error before any prompt,
\* and main exits through log.Fatalf
GetwdFails ==
    /\ pc = "projectName"
    /\ Fatal("failed to get current directory")
    /\ UNCHANGED <<env, failedStep, nread, config, fs, steps, calls, warnings, gitErr,
                   hookErr, commit>>

PromptProjectName ==
    /\ pc = "projectName"
    /\ LET name == promptWithDefault(ReadString(input, nread), cwdBase) IN
        /\ nread' = nread + 1
        /\ config' = [config EXCEPT !.ProjectName = name]
        /\ IF ~isValidProjectName(name)
           THEN Fatal("invalid project name")
           ELSE Goto("modulePath")
    /\ UNCHANGED <<env, failedStep, fs, steps, calls, warnings, gitErr, hookErr, commit>>

\* a mutant that offers the prefix alone as the default
PromptModulePathBarePrefix ==
    /\ pc = "modulePath"
    /\ LET defaultModulePath == defaultModulePrefix
           path == promptWithDefault(ReadString(input, nread), defaultModulePath)
       IN
        /\ nread' = nread + 1
        /\ config' = [config EXCEPT !.ModulePath = path]
        /\ IF ~isValidModulePath(path)
           THEN Fatal("invalid module path format")
           ELSE Goto("description")
    /\ UNCHANGED <<env, failedStep, fs, steps, calls, warnings, gitErr, hookErr, commit>>

PromptModulePath ==
    /\ pc = "modulePath"
    /\ LET defaultModulePath == defaultModulePrefix \o config.ProjectName
           path == promptWithDefault(ReadString(input, nread), defaultModulePath)
       IN
        /\ nread' = nread + 1
        /\ config' = [config EXCEPT !.ModulePath = path]
        /\ IF ~isValidModulePath(path)
           THEN Fatal("invalid module path format")
           ELSE Goto("description")
    /\ UNCHANGED <<env, failedStep, fs, steps, calls, warnings, gitErr, hookErr, commit>>

\* the four free-text prompts that follow, in order
PromptText ==
    /\ pc \in {"description", "author", "email", "license"}
    /\ LET r == ReadString(input, nread) IN
        /\ nread' = nread + 1
        /\ CASE pc = "description" ->
                  /\ config' = [config EXCEPT
                        !.Description = promptWithDefault(r, defaultDescription)]
                  /\ Goto("getGitAuthor")
             [] pc = "author" ->
                  /\ config' = [config EXCEPT
                        !.Author = promptWithDefault(r, getGitConfig("name", defaultAuthor))]
                  /\ Goto("email")
             [] pc = "email" ->
                  /\ config' = [config EXCEPT
                        !.Email = promptWithDefault(r, getGitConfig("email", defaultEmail))]
                  /\ Goto("license")
             [] pc = "license" ->
                  /\ config' = [config EXCEPT
                        !.License = promptWithDefault(r, defaultLicense)]
                  /\ Goto("cli")
    /\ UNCHANGED <<env, failedStep, fs, steps, calls, warnings, gitErr, hookErr, commit>>

\* getGitConfig for user.name, then for user.email: git config --global is
\* started and waited for without a timeout (cmd.Output); what it returns
\* is used as the default of the prompt that follows
GetGitConfig ==
    /\ pc \in {"getGitAuthor", "getGitEmail"}
    /\ calls' = Append(calls, IF pc = "getGitAuthor" THEN GatherCalls[1]
                              ELSE GatherCalls[2])
    /\ \E outcome \in {"exit", "hang"} :
        IF outcome = "hang"
        THEN /\ pc' = "blocked"
             /\ UNCHANGED <<exitStatus, fatal>>
        ELSE Goto(IF pc = "getGitAuthor" THEN "getGitEmail" ELSE "author")
    /\ UNCHANGED <<env, failedStep, nread, config, fs, steps, warnings, gitErr, hookErr,
                   commit>>

\* the five component prompts, in order, with their defaults
\* a mutant without the question about the E2E tests
PromptComponentNoE2E ==
    /\ pc \in {"cli", "server", "worker", "docs", "e2e"}
    /\ LET r == ReadString(input, nread) IN
        /\ nread' = nread + 1
        /\ CASE pc = "cli" ->
                  /\ config' = [config EXCEPT !.EnableCLI = promptBool(r, TRUE)]
                  /\ Goto("server")
             [] pc = "server" ->
                  /\ config' = [config EXCEPT !.EnableServer = promptBool(r, TRUE)]
                  /\ Goto("worker")
             [] pc = "worker" ->
                  /\ config' = [config EXCEPT !.EnableWorker = promptBool(r, FALSE)]
                  /\ Goto("docs")
             [] pc = "docs" ->
                  /\ config' = [config EXCEPT !.EnableDocs = promptBool(r, TRUE)]
                  /\ Goto("gitRemote")
             [] pc = "e2e" ->
                  /\ config' = [config EXCEPT !.EnableE2ETests = promptBool(r, FALSE)]
                  /\ Goto("gitRemote")
    /\ UNCHANGED <<env, failedStep, fs, steps, calls, warnings, gitErr, hookErr, commit>>

PromptComponent ==
    /\ pc \in {"cli", "server", "worker", "docs", "e2e"}
    /\ LET r == ReadString(input, nread) IN
        /\ nread' = nread + 1
        /\ CASE pc = "cli" ->
                  /\ config' = [config EXCEPT !.EnableCLI = promptBool(r, TRUE)]
                  /\ Goto("server")
             [] pc = "server" ->
                  /\ config' = [config EXCEPT !.EnableServer = promptBool(r, TRUE)]
                  /\ Goto("worker")
             [] pc = "worker" ->
                  /\ config' = [config EXCEPT !.EnableWorker = promptBool(r, FALSE)]
                  /\ Goto("docs")
             [] pc = "docs" ->
                  /\ config' = [config EXCEPT !.EnableDocs = promptBool(r, TRUE)]
                  /\ Goto("e2e")
             [] pc = "e2e" ->
                  /\ config' = [config EXCEPT !.EnableE2ETests = promptBool(r, FALSE)]
                  /\ Goto("gitRemote")
    /\ UNCHANGED <<env, failedStep, fs, steps, calls, warnings, gitErr, hookErr, commit>>

PromptGitRemote ==
    /\ pc = "gitRemote"
    /\ nread' = nread + 1
    /\ config' = [config EXCEPT !.GitRemote = prompt(ReadString(input, nread))]
    /\ Goto("confirm")
    /\ UNCHANGED <<env, failedStep, fs, steps, calls, warnings, gitErr, hookErr, commit>>

\* the summary and the final confirmation; a "no" is os.Exit(0)
Confirm ==
    /\ pc = "confirm"
    /\ nread' = nread + 1
    /\ IF ~promptBool(ReadString(input, nread), FALSE)
       THEN /\ pc' = "exit"
            /\ exitStatus' = "0"
            /\ fatal' = "none"
       ELSE Goto("updateGoMod")
    /\ UNCHANGED <<env, failedStep, config, fs, steps, calls, warnings, gitErr, hookErr,
            commit>>

\* ------------------------------------------------------------------------
\* initializeProject: the required steps
\* ------------------------------------------------------------------------

\* the required steps, in the order initializeProject runs them
RequiredOrder == <<"updateGoMod", "updateImportPaths", "removeUnwantedComponents",
                   "cleanupTemplateArtifacts", "generateReadme">>

\* a mutant that goes on after a failed step
RequiredIgnoringErrors(step, result, next, msg) ==
    /\ fs' = result.tree
    /\ steps' = Append(steps, step)
    /\ failedStep' = IF result.err # "nil" THEN step ELSE failedStep
    /\ Goto(next)
    /\ UNCHANGED <<env, nread, config, calls, warnings, gitErr, hookErr, commit>>

\* a required step that left result: its error is returned to main, which
\* exits through log.Fatalf, else the next step follows
Required(step, result, next, msg) ==
    /\ fs' = result.tree
    /\ steps' = Append(steps, step)
    /\ failedStep' = IF result.err # "nil" THEN step ELSE failedStep
    /\ IF result.err # "nil" THEN Fatal(msg) ELSE Goto(next)
    /\ UNCHANGED <<env, nread, config, calls, warnings, gitErr, hookErr, commit>>

UpdateGoMod ==
    /\ pc = "updateGoMod"
    /\ \E outcome \in {"ok", "open_fail", "write_fail"} :
        Required("updateGoMod", updateGoMod(config, fs, outcome),
                 "updateImportPaths", "failed to update go.mod")

UpdateImportPaths ==
    /\ pc = "updateImportPaths"
    /\ \E failAt \in 0..Len(GoFilesInWalkOrder) + 1, kind \in {"read_fail", "write_fail", "walk_fail"} :
        Required("updateImportPaths", updateImportPaths(config, fs, failAt, kind),
                 "removeUnwantedComponents", "failed to update import paths")

RemoveUnwantedComponents ==
    /\ pc = "removeUnwantedComponents"
    /\ \E failAt \in 0..Len(removeTargets(config)), emptied \in BOOLEAN :
        Required("removeUnwantedComponents",
                 removeUnwantedComponents(config, fs, failAt, emptied),
                 "cleanupTemplateArtifacts", "failed to remove unwanted components")

CleanupTemplateArtifacts ==
    /\ pc = "cleanupTemplateArtifacts"
    /\ \E indexFirst \in BOOLEAN, kind \in {"open_fail", "write_fail"} :
       \E failAt \in 0..Len(cleanupOps(config, indexFirst)) :
        Required("cleanupTemplateArtifacts",
                 cleanupTemplateArtifacts(config, fs, failAt, kind, indexFirst),
                 "generateReadme", "failed to clean up template artifacts")

\* a mutant in which the init script is removed with the README step,
\* before the best-effort steps
GenerateReadmeRemovingScript ==
    /\ pc = "generateReadme"
    /\ \E outcome \in ReadmeOutcomes :
        LET r == generateReadme(config, fs, outcome) IN
            Required("generateReadme",
                     [tree |-> Remove(r.tree, "scripts/init.go"), err |-> r.err],
                     "initializeGit", "failed to generate README")

GenerateReadme ==
    /\ pc = "generateReadme"
    /\ \E outcome \in ReadmeOutcomes :
        Required("generateReadme", generateReadme(config, fs, outcome),
                 "initializeGit", "failed to generate README")

\* ------------------------------------------------------------------------
\* initializeProject: the best-effort steps
\* ------------------------------------------------------------------------

\* how a subprocess the program waits for can behave: exit with status 0,
\* exit with another status, or never exit
SubprocessOutcomes == {"ok", "fail", "hang"}

\* the environment toggle is set: the bootstrapper is skipped with a notice
\* a mutant in which the toggle ends initializeProject at once
SkipGitInitReturn ==
    /\ pc = "initializeGit"
    /\ skipGit
    /\ pc' = "exit"
    /\ exitStatus' = "0"
    /\ fatal' = "none"
    /\ UNCHANGED <<env, failedStep, nread, config, fs, steps, calls, warnings, gitErr, hookErr,
            commit>>

SkipGitInit ==
    /\ pc = "initializeGit"
    /\ skipGit
    /\ Goto("setupPreCommitHooks")
    /\ UNCHANGED <<env, failedStep, nread, config, fs, steps, calls, warnings, gitErr, hookErr,
            commit>>

\* a mutant in which initializeProject returns the error of initializeGit
GitReturnFatal(err) ==
    /\ gitErr' = err
    /\ warnings' = warnings
    /\ IF err # "nil" THEN Fatal("failed to initialize git")
       ELSE Goto("setupPreCommitHooks")

\* initializeGit returns err to initializeProject, which prints a warning
\* for a non-nil err and goes on
GitReturn(err) ==
    /\ gitErr' = err
    /\ warnings' = IF err # "nil" THEN Append(warnings, "Failed to initialize git")
                   ELSE warnings
    /\ Goto("setupPreCommitHooks")

\* the main goroutine waits for a subprocess that never exits
Block ==
    /\ pc' = "blocked"
    /\ UNCHANGED <<exitStatus, fatal>>

\* a mutant that tries git init a second time when it failed
GitInitRetry ==
    /\ pc = "initializeGit"
    /\ ~skipGit
    /\ steps' = Append(steps, "initializeGit")
    /\ \E outcome \in SubprocessOutcomes :
        CASE outcome = "ok" ->
                /\ calls' = Append(calls, "git init")
                /\ Goto("gitConfigName")
                /\ UNCHANGED <<gitErr, warnings>>
          [] outcome = "fail" ->
                /\ calls' = calls \o <<"git init", "git init">>
                /\ GitReturn("failed to initialize git")
          [] outcome = "hang" ->
                /\ calls' = Append(calls, "git init")
                /\ Block
                /\ UNCHANGED <<gitErr, warnings>>
    /\ UNCHANGED <<env, failedStep, nread, config, fs, hookErr, commit>>

GitInit ==
    /\ pc = "initializeGit"
    /\ ~skipGit
    /\ steps' = Append(steps, "initializeGit")
    /\ calls' = Append(calls, "git init")
    /\ \E outcome \in SubprocessOutcomes :
        CASE outcome = "ok" ->
                /\ Goto("gitConfigName")
                /\ UNCHANGED <<gitErr, warnings>>
          [] outcome = "fail" -> GitReturn("failed to initialize git")
          [] outcome = "hang" ->
                /\ Block
                /\ UNCHANGED <<gitErr, warnings>>
    /\ UNCHANGED <<env, failedStep, nread, config, fs, hookErr, commit>>

\* git config user.name, then git config user.email: a failure is logged
GitConfig ==
    /\ pc \in {"gitConfigName", "gitConfigEmail"}
    /\ calls' = Append(calls, IF pc = "gitConfigName" THEN "git config user.name"
                              ELSE "git config user.email")
    /\ \E outcome \in SubprocessOutcomes :
        CASE outcome = "ok" ->
                /\ Goto(IF pc = "gitConfigName" THEN "gitConfigEmail" ELSE "gitRemoteAdd")
                /\ UNCHANGED warnings
          [] outcome = "fail" ->
                /\ Goto(IF pc = "gitConfigName" THEN "gitConfigEmail" ELSE "gitRemoteAdd")
                /\ warnings' = Append(warnings, "Failed to set git identity")
          [] outcome = "hang" ->
                /\ Block
                /\ UNCHANGED warnings
    /\ UNCHANGED <<env, failedStep, nread, config, fs, steps, gitErr, hookErr, commit>>

\* git remote add origin, only for a non-empty remote: a failure is logged
GitRemoteAdd ==
    /\ pc = "gitRemoteAdd"
    /\ IF config.GitRemote = <<>>
       THEN /\ Goto("gitAdd")
            /\ UNCHANGED <<calls, warnings>>
       ELSE /\ calls' = Append(calls, "git remote add")
            /\ \E outcome \in SubprocessOutcomes :
                CASE outcome = "ok" ->
                        /\ Goto("gitAdd")
                        /\ UNCHANGED warnings
                  [] outcome = "fail" ->
                        /\ Goto("gitAdd")
                        /\ warnings' = Append(warnings, "Failed to add git remote")
                  [] outcome = "hang" ->
                        /\ Block
                        /\ UNCHANGED warnings
    /\ UNCHANGED <<env, failedStep, nread, config, fs, steps, gitErr, hookErr, commit>>

\* a mutant that attempts the commit before it returns the staging error
GitAddThenCommit ==
    /\ pc = "gitAdd"
    /\ \E outcome \in SubprocessOutcomes :
        CASE outcome = "ok" ->
                /\ calls' = Append(calls, "git add")
                /\ Goto("gitCommit")
                /\ UNCHANGED <<gitErr, warnings>>
          [] outcome = "fail" ->
                /\ calls' = calls \o <<"git add", "git commit">>
                /\ GitReturn("failed to stage files")
          [] outcome = "hang" ->
                /\ calls' = Append(calls, "git add")
                /\ Block
                /\ UNCHANGED <<gitErr, warnings>>
    /\ UNCHANGED <<env, failedStep, nread, config, fs, steps, hookErr, commit>>

\* git add . : when it succeeds the index holds the files of the working
\* tree, and it is the index that git commit records
GitAdd ==
    /\ pc = "gitAdd"
    /\ calls' = Append(calls, "git add")
    /\ \E outcome \in SubprocessOutcomes :
        CASE outcome = "ok" ->
                /\ commit' = [commit EXCEPT !.index = DOMAIN fs.files]
                /\ Goto("gitCommit")
                /\ UNCHANGED <<gitErr, warnings>>
          [] outcome = "fail" ->
                /\ GitReturn("failed to stage files")
                /\ UNCHANGED commit
          [] outcome = "hang" ->
                /\ Block
                /\ UNCHANGED <<gitErr, warnings, commit>>
    /\ UNCHANGED <<env, failedStep, nread, config, fs, steps, hookErr>>

\* done := make(chan error, 1); go func() {...}(); then the select
CommitSpawn ==
    /\ pc = "gitCommit"
    /\ commit' = [commit EXCEPT !.goroutine = "start"]
    /\ Goto("select")
    /\ UNCHANGED <<env, failedStep, nread, config, fs, steps, calls, warnings, gitErr, hookErr>>

\* the goroutine runs only while the initializer's process is alive
GoroutineRuns == exitStatus = "running"

\* the goroutine: commitCmd.CombinedOutput() starts the subprocess, which
\* sets commitCmd.Process, or fails to start it
CommitStart ==
    /\ GoroutineRuns
    /\ commit.goroutine = "start"
    /\ calls' = Append(calls, "git commit")
    /\ \/ commit' = [commit EXCEPT !.goroutine = "wait", !.proc = "running",
                                   !.process = TRUE, !.pipe = "open"]
       \/ commit' = [commit EXCEPT !.goroutine = "send",
                                   !.result = "failed to create initial commit"]
    /\ UNCHANGED <<env, failedStep, pc, nread, config, fs, steps, warnings, exitStatus, fatal,
                   gitErr, hookErr>>

\* the commit subprocess exits on its own
CommitExit ==
    /\ commit.proc = "running"
    /\ \E status \in {"exited_ok", "exited_fail"} :
        commit' = [commit EXCEPT !.proc = status]
    /\ UNCHANGED <<env, failedStep, pc, nread, config, fs, steps, calls, warnings, exitStatus,
                   fatal, gitErr, hookErr>>

\* the output pipe reaches its end: the subprocess has ended and nothing
\* it started holds the write end any more
OutputEOF ==
    /\ commit.proc \in {"exited_ok", "exited_fail", "killed"}
    /\ commit.pipe = "open"
    /\ commit' = [commit EXCEPT !.pipe = "closed"]
    /\ UNCHANGED <<env, failedStep, pc, nread, config, fs, steps, calls, warnings, exitStatus,
                   fatal, gitErr, hookErr>>

\* a mutant that does not look at the exit status of the commit
CommitWaitIgnoringStatus ==
    /\ GoroutineRuns
    /\ commit.goroutine = "wait"
    /\ commit.proc \in {"exited_ok", "exited_fail", "killed"}
    /\ commit' = [commit EXCEPT !.goroutine = "drain", !.result = "nil"]
    /\ UNCHANGED <<env, failedStep, pc, nread, config, fs, steps, calls, warnings, exitStatus,
                   fatal, gitErr, hookErr>>

\* the goroutine, in cmd.Wait: Process.Wait returns once the subprocess has
\* ended, with its status
CommitWait ==
    /\ GoroutineRuns
    /\ commit.goroutine = "wait"
    /\ commit.proc \in {"exited_ok", "exited_fail", "killed"}
    /\ commit' = [commit EXCEPT
            !.goroutine = "drain",
            !.result = IF commit.proc = "exited_ok" THEN "nil"
                       ELSE "failed to create initial commit"]
    /\ UNCHANGED <<env, failedStep, pc, nread, config, fs, steps, calls, warnings, exitStatus,
                   fatal, gitErr, hookErr>>

\* the goroutine, in cmd.Wait: the copy of the output ends with the pipe,
\* and CombinedOutput returns
CommitDrain ==
    /\ GoroutineRuns
    /\ commit.goroutine = "drain"
    /\ commit.pipe = "closed"
    /\ commit' = [commit EXCEPT !.goroutine = "send"]
    /\ UNCHANGED <<env, failedStep, pc, nread, config, fs, steps, calls, warnings, exitStatus,
                   fatal, gitErr, hookErr>>

\* the capacity of the done channel
DoneCapacity == 1

\* a mutant with an unbuffered channel: the send waits for the receiver
CommitSendUnbuffered ==
    /\ GoroutineRuns
    /\ commit.goroutine = "send"
    /\ pc = "select"
    /\ commit' = [commit EXCEPT !.goroutine = "end",
                                !.done = Append(commit.done, commit.result)]
    /\ UNCHANGED <<env, failedStep, pc, nread, config, fs, steps, calls, warnings, exitStatus,
                   fatal, gitErr, hookErr>>

\* the goroutine: done <- err
CommitSend ==
    /\ GoroutineRuns
    /\ commit.goroutine = "send"
    /\ Len(commit.done) < DoneCapacity
    /\ commit' = [commit EXCEPT !.goroutine = "end",
                                !.done = Append(commit.done, commit.result)]
    /\ UNCHANGED <<env, failedStep, pc, nread, config, fs, steps, calls, warnings, exitStatus,
                   fatal, gitErr, hookErr>>

\* select: case err := <-done
SelectDone ==
    /\ pc = "select"
    /\ commit.done # <<>>
    /\ commit' = [commit EXCEPT !.done = Tail(commit.done)]
    /\ GitReturn(Head(commit.done))
    /\ UNCHANGED <<env, failedStep, nread, config, fs, steps, calls, hookErr>>

\* what Process.Kill does to the subprocess
Kill(proc) == IF proc = "running" THEN "killed" ELSE proc

\* select: case <-time.After(10 * time.Second); the passing of time is not
\* modelled, so the timer may fire at any point of the wait
\* Process.Kill returns an error once Process.Wait has reaped the
\* subprocess; the error is printed as a warning
SelectTimeout ==
    /\ pc = "select"
    /\ IF commit.process
       THEN commit' = [commit EXCEPT !.proc = Kill(commit.proc)]
       ELSE UNCHANGED commit
    /\ gitErr' = "git commit timed out after 10 seconds"
    /\ warnings' = warnings \o
            (IF commit.process /\ commit.goroutine \in {"drain", "send", "end"}
             THEN <<"failed to kill git commit process">> ELSE <<>>) \o
            <<"Failed to initialize git">>
    /\ Goto("setupPreCommitHooks")
    /\ UNCHANGED <<env, failedStep, nread, config, fs, steps, calls, hookErr>>

\* setupPreCommitHooks and the caller's handling of its error.  Run starts
\* the subprocess and then waits for it, and the commit goroutine and the
\* git commit subprocess left by a timeout can step in between, so each
\* Run is two steps: the start and the end of the wait.

\* setupPreCommitHooks is entered and pre-commit --version is started
SetupPreCommitHooks ==
    /\ pc = "setupPreCommitHooks"
    /\ steps' = Append(steps, "setupPreCommitHooks")
    /\ calls' = Append(calls, "pre-commit --version")
    /\ Goto("probeWait")
    /\ UNCHANGED <<env, failedStep, nread, config, fs, warnings, gitErr, hookErr,
                   commit>>

\* a mutant that runs the install whatever the probe says
ProbeWaitBlind ==
    /\ pc = "probeWait"
    /\ \E probe \in SubprocessOutcomes :
        CASE probe = "hang" ->
                /\ Block
                /\ UNCHANGED <<hookErr, warnings>>
          [] probe = "fail" ->
                /\ hookErr' = "pre-commit not installed"
                /\ warnings' = Append(warnings, "Failed to setup pre-commit hooks")
                /\ Goto("preCommitInstall")
          [] probe = "ok" ->
                /\ Goto("preCommitInstall")
                /\ UNCHANGED <<hookErr, warnings>>
    /\ UNCHANGED <<env, failedStep, nread, config, fs, steps, calls, gitErr, commit>>

\* the wait for pre-commit --version ends, or never does: when the probe
\* failed the function returns "pre-commit not installed", which the caller
\* prints as a warning
ProbeWait ==
    /\ pc = "probeWait"
    /\ \E probe \in SubprocessOutcomes :
        CASE probe = "hang" ->
                /\ Block
                /\ UNCHANGED <<hookErr, warnings>>
          [] probe = "fail" ->
                /\ hookErr' = "pre-commit not installed"
                /\ warnings' = Append(warnings, "Failed to setup pre-commit hooks")
                /\ Goto("removeInitScript")
          [] probe = "ok" ->
                /\ Goto("preCommitInstall")
                /\ UNCHANGED <<hookErr, warnings>>
    /\ UNCHANGED <<env, failedStep, nread, config, fs, steps, calls, gitErr, commit>>

\* pre-commit install is started
PreCommitInstall ==
    /\ pc = "preCommitInstall"
    /\ calls' = Append(calls, "pre-commit install")
    /\ Goto("installWait")
    /\ UNCHANGED <<env, failedStep, nread, config, fs, steps, warnings, gitErr,
                   hookErr, commit>>

\* the wait for pre-commit install ends, or never does: its error is
\* returned to the caller, which prints a warning for it
InstallWait ==
    /\ pc = "installWait"
    /\ \E install \in SubprocessOutcomes :
        CASE install = "hang" ->
                /\ Block
                /\ UNCHANGED <<hookErr, warnings>>
          [] install = "fail" ->
                /\ hookErr' = "exit status 1"
                /\ warnings' = Append(warnings, "Failed to setup pre-commit hooks")
                /\ Goto("removeInitScript")
          [] install = "ok" ->
                /\ hookErr' = "nil"
                /\ UNCHANGED warnings
                /\ Goto("removeInitScript")
    /\ UNCHANGED <<env, failedStep, nread, config, fs, steps, calls, gitErr, commit>>

\* os.Remove("scripts/init.go"), removeEmptyDirectory("scripts"), return nil;
\* main then prints the success message and returns
RemoveInitScript ==
    /\ pc = "removeInitScript"
    /\ steps' = steps \o <<"removeInitScript", "removeEmptyDirectory">>
    /\ \E removed \in BOOLEAN :
        LET ok == removed /\ "scripts/init.go" \in DOMAIN fs.files
            t1 == IF ok THEN Remove(fs, "scripts/init.go") ELSE fs
            r2 == removeEmptyDirectory(t1, "scripts")
        IN  /\ fs' = r2.tree
            /\ warnings' = warnings
                    \o (IF ok THEN <<>> ELSE <<"Failed to remove init script">>)
                    \o (IF r2.err = "nil" THEN <<>>
                        ELSE <<"Could not remove scripts directory">>)
    /\ pc' = "exit"
    /\ exitStatus' = "0"
    /\ fatal' = "none"
    /\ UNCHANGED <<env, failedStep, nread, config, calls, gitErr, hookErr, commit>>

\* ------------------------------------------------------------------------
\* Specifications
\* ------------------------------------------------------------------------

Gather ==
    \/ GetwdFails
    \/ PromptProjectName
    \/ PromptModulePath
    \/ PromptText
    \/ GetGitConfig
    \/ PromptComponent
    \/ PromptGitRemote
    \/ Confirm

Mutate ==
    \/ UpdateGoMod
    \/ UpdateImportPaths
    \/ RemoveUnwantedComponents
    \/ CleanupTemplateArtifacts
    \/ GenerateReadme

BestEffort ==
    \/ SkipGitInit
    \/ GitInit
    \/ GitConfig
    \/ GitRemoteAdd
    \/ GitAdd
    \/ CommitSpawn
    \/ SelectDone
    \/ SelectTimeout
    \/ SetupPreCommitHooks
    \/ ProbeWait
    \/ PreCommitInstall
    \/ InstallWait
    \/ RemoveInitScript

Goroutine ==
    \/ CommitStart
    \/ CommitWait
    \/ CommitDrain
    \/ CommitSend

Next ==
    \/ Gather
    \/ Mutate
    \/ BestEffort
    \/ Goroutine
    \/ CommitExit
    \/ OutputEOF

Spec == Init /\ [][Next]_vars

\* the tree the required steps leave when none of them fails
AfterRequired(c, tree) ==
    LET t1 == updateGoMod(c, tree, "ok").tree
        t2 == updateImportPaths(c, t1, 0, "read_fail").tree
        t3 == removeUnwantedComponents(c, t2, 0, FALSE).tree
        t4 == cleanupTemplateArtifacts(c, t3, 0, "open_fail", TRUE).tree
    IN  generateReadme(c, t4, "ok").tree

\* the configurations the best-effort phase is explored with
GitConfigurations ==
    {[emptyConfig EXCEPT !.ProjectName = ExampleProject, !.ModulePath = ExampleModule,
                         !.Author = defaultAuthor, !.Email = defaultEmail,
                         !.License = defaultLicense, !.EnableCLI = TRUE,
                         !.EnableDocs = TRUE, !.GitRemote = r] :
        r \in {Empty, RemoteUrl}}

\* the best-effort phase on its own: initializeProject has just finished
\* the required steps without an error
InitGit ==
    \E c \in GitConfigurations, skip \in BOOLEAN :
        /\ pc = "initializeGit"
        /\ input = <<>>
        /\ nread = 13
        /\ cwdBase = ExampleProject
        /\ gitGlobal = NoGitGlobal
        /\ skipGit = skip
        /\ config = c
        /\ fs = AfterRequired(c, FullTree)
        /\ fs0 = FullTree
        /\ steps = RequiredOrder
        /\ calls = GatherCalls
        /\ warnings = <<>>
        /\ exitStatus = "running"
        /\ fatal = "none"
        /\ failedStep = "none"
        /\ gitErr = "none"
        /\ hookErr = "none"
        /\ commit = noCommit

NextGit ==
    \/ BestEffort
    \/ Goroutine
    \/ CommitExit
    \/ OutputEOF

GitSpec == InitGit /\ [][NextGit]_vars

\* the scheduler keeps running the main goroutine and the commit goroutine,
\* and the timer fires; a subprocess is not obliged to exit
GitFairSpec ==
    /\ GitSpec
    /\ WF_vars(BestEffort)
    /\ WF_vars(Goroutine)

\* ------------------------------------------------------------------------
\* The pruner on its own: any configuration of the flags, any starting
\* tree, removeUnwantedComponents run repeatedly
\* ------------------------------------------------------------------------

\* how many times the pruner is run
MaxPruneRuns == 2

\* the template restricted to a set of component directories
TreeWith(ds) ==
    LET gone == UNION {Under[d] : d \in ComponentDirs \ ds}
    IN  [dirs |-> ds \cup {"scripts"},
         files |-> Restrict(FullTree.files, DOMAIN FullTree.files \ gone)]

FlagConfig(f) ==
    [emptyConfig EXCEPT !.ProjectName = ExampleProject, !.ModulePath = ExampleModule,
                        !.EnableCLI = f[1], !.EnableServer = f[2],
                        !.EnableWorker = f[3], !.EnableDocs = f[4],
                        !.EnableE2ETests = f[5]]

InitPrune ==
    \E f \in [1..5 -> BOOLEAN], ds \in SUBSET ComponentDirs :
        /\ pc = "removeUnwantedComponents"
        /\ input = <<>>
        /\ nread = 0
        /\ cwdBase = <<>>
        /\ gitGlobal = NoGitGlobal
        /\ skipGit = TRUE
        /\ config = FlagConfig(f)
        /\ fs = TreeWith(ds)
        /\ fs0 = TreeWith(ds)
        /\ steps = <<>>
        /\ calls = <<>>
        /\ warnings = <<>>
        /\ exitStatus = "running"
        /\ fatal = "none"
        /\ failedStep = "none"
        /\ gitErr = "none"
        /\ hookErr = "none"
        /\ commit = noCommit

\* one more run of removeUnwantedComponents on the tree the last run left;
\* a RemoveAll call that the operating system fails is noted in calls
PruneAgain ==
    /\ pc = "removeUnwantedComponents"
    /\ Len(steps) < MaxPruneRuns
    /\ \E failAt \in 0..Len(removeTargets(config)), emptied \in BOOLEAN :
        LET result == removeUnwantedComponents(config, fs, failAt, emptied) IN
            /\ fs' = result.tree
            /\ steps' = Append(steps, "removeUnwantedComponents")
            /\ calls' = IF failAt # 0 THEN Append(calls, "RemoveAll failed") ELSE calls
            /\ failedStep' = IF result.err # "nil" THEN "removeUnwantedComponents"
                             ELSE failedStep
    /\ UNCHANGED <<env, pc, nread, config, warnings, exitStatus, fatal, gitErr,
                   hookErr, commit>>

NextPrune == PruneAgain

PruneSpec == InitPrune /\ [][NextPrune]_vars

\* ------------------------------------------------------------------------
\* The validators alone: isValidProjectName and isValidModulePath applied,
\* as gatherProjectInfo applies them, to a name or a path already stored in
\* the configuration
\* ------------------------------------------------------------------------

\* the longest candidate name
MaxNameLen == 4

\* the longest free segment of a candidate path
MaxSegLen == 3

\* the most segments a candidate path has
MaxSegments == 4

\* the strings of at most n characters of an alphabet
Strings(alphabet, n) == UNION {[1..k -> alphabet] : k \in 0..n}

NameAlphabet == {"a", "Z", "1", "-", "_"}

SegAlphabet == {"a", "1", "-", "_", "."}

CandidateNames == Strings(NameAlphabet, MaxNameLen) \cup NameLines

\* the segments joined by slashes
RECURSIVE Join(_)
Join(segs) ==
    IF Len(segs) = 0 THEN <<>>
    ELSE IF Len(segs) = 1 THEN segs[1]
    ELSE segs[1] \o <<"/">> \o Join(Tail(segs))

PlainSegments == {<<"a", "b">>, <<"a", ".", "b">>}

GithubOrgRepo ==
    <<"g", "i", "t", "h", "u", "b", ".", "c", "o", "m", "/", "o", "r", "g", "/",
      "r", "e", "p", "o">>

\* paths of one to MaxSegments segments: every segment is a plain one but
\* one, which is any string over the segment alphabet (the empty one too)
CandidatePaths ==
    {Join([q EXCEPT ![i] = s]) :
        <<q, i, s>> \in UNION {[1..k -> PlainSegments] \X (1..k) \X
                               Strings(SegAlphabet, MaxSegLen) : k \in 1..MaxSegments}}
    \cup ModuleLines \cup {GithubOrgRepo}

InitValidate ==
    /\ \/ \E name \in CandidateNames :
            /\ pc = "isValidProjectName"
            /\ config = [emptyConfig EXCEPT !.ProjectName = name]
       \/ \E path \in CandidatePaths :
            /\ pc = "isValidModulePath"
            /\ config = [emptyConfig EXCEPT !.ProjectName = ExampleProject,
                                            !.ModulePath = path]
    /\ input = <<>>
    /\ nread = 0
    /\ cwdBase = <<>>
    /\ gitGlobal = NoGitGlobal
    /\ skipGit = TRUE
    /\ fs = TestCopyTree
    /\ fs0 = TestCopyTree
    /\ steps = <<>>
    /\ calls = <<>>
    /\ warnings = <<>>
    /\ exitStatus = "running"
    /\ fatal = "none"
    /\ failedStep = "none"
    /\ gitErr = "none"
    /\ hookErr = "none"
    /\ commit = noCommit

\* the check of the project name: an error, fatal in main, or on to the
\* module path
ValidateProjectName ==
    /\ pc = "isValidProjectName"
    /\ IF ~isValidProjectName(config.ProjectName)
       THEN Fatal("invalid project name")
       ELSE Goto("modulePath")
    /\ UNCHANGED <<env, nread, config, failedStep, fs, steps, calls, warnings, gitErr,
                   hookErr, commit>>

\* the check of the module path: an error, fatal in main, or on to the
\* description
ValidateModulePath ==
    /\ pc = "isValidModulePath"
    /\ IF ~isValidModulePath(config.ModulePath)
       THEN Fatal("invalid module path format")
       ELSE Goto("description")
    /\ UNCHANGED <<env, nread, config, failedStep, fs, steps, calls, warnings, gitErr,
                   hookErr, commit>>

NextValidate == ValidateProjectName \/ ValidateModulePath

ValidateSpec == InitValidate /\ [][NextValidate]_vars

\* ------------------------------------------------------------------------
\* The yes/no prompts alone: the five component questions answered with
\* the same line, or with no input at all
\* ------------------------------------------------------------------------

\* the longest candidate answer
MaxAnswerLen == 4

AnswerAlphabet == {"y", "Y", "e", "E", "s", "n", " "}

CandidateAnswers == Strings(AnswerAlphabet, MaxAnswerLen) \cup ConfirmLines

InitPromptBool ==
    /\ pc = "cli"
    /\ \/ input = <<>>
       \/ \E line \in CandidateAnswers : input = <<line, line, line, line, line>>
    /\ nread = 0
    /\ cwdBase = <<>>
    /\ gitGlobal = NoGitGlobal
    /\ skipGit = TRUE
    /\ config = [emptyConfig EXCEPT !.ProjectName = ExampleProject,
                                    !.ModulePath = ExampleModule]
    /\ fs = TestCopyTree
    /\ fs0 = TestCopyTree
    /\ steps = <<>>
    /\ calls = <<>>
    /\ warnings = <<>>
    /\ exitStatus = "running"
    /\ fatal = "none"
    /\ failedStep = "none"
    /\ gitErr = "none"
    /\ hookErr = "none"
    /\ commit = noCommit

NextPromptBool == PromptComponent

PromptBoolSpec == InitPromptBool /\ [][NextPromptBool]_vars

\* ------------------------------------------------------------------------
\* generateReadme alone: the step applied to configurations that vary
\* every field, on a tree with and on a tree without a README.md
\* ------------------------------------------------------------------------

\* two values for each text field of the configuration
FieldValues ==
    [ProjectName |-> {ExampleProject, TestProject},
     ModulePath |-> {ExampleModule, TestModule},
     Description |-> {defaultDescription, TextAnswers[1]},
     Author |-> {defaultAuthor, TextAnswers[2]},
     Email |-> {defaultEmail, TextAnswers[3]},
     License |-> {defaultLicense, <<"A", "p", "a", "c", "h", "e", "-", "2", ".", "0">>},
     GitRemote |-> {Empty, RemoteUrl}]

ReadmeConfigurations ==
    [ProjectName : FieldValues.ProjectName, ModulePath : FieldValues.ModulePath,
     Description : FieldValues.Description, Author : FieldValues.Author,
     Email : FieldValues.Email, License : FieldValues.License,
     EnableCLI : BOOLEAN, EnableServer : BOOLEAN, EnableWorker : BOOLEAN,
     EnableDocs : BOOLEAN, EnableE2ETests : BOOLEAN, GitRemote : FieldValues.GitRemote]

InitReadme ==
    \E c \in ReadmeConfigurations, tree \in InitialTrees :
        /\ pc = "generateReadme"
        /\ input = <<>>
        /\ nread = 13
        /\ cwdBase = c.ProjectName
        /\ gitGlobal = NoGitGlobal
        /\ skipGit = TRUE
        /\ config = c
        /\ fs = tree
        /\ fs0 = tree
        /\ steps = SubSeq(RequiredOrder, 1, 4)
        /\ calls = GatherCalls
        /\ warnings = <<>>
        /\ exitStatus = "running"
        /\ fatal = "none"
        /\ failedStep = "none"
        /\ gitErr = "none"
        /\ hookErr = "none"
        /\ commit = noCommit

NextReadme == GenerateReadme

ReadmeSpec == InitReadme /\ [][NextReadme]_vars

\* ------------------------------------------------------------------------
\* updateImportPaths alone, run repeatedly on the tree the last run left,
\* for the candidate module paths that isValidModulePath accepts and for
\* accepted paths that have the placeholder path within them
\* ------------------------------------------------------------------------

\* how many times the rewrite is run
MaxRewriteRuns == 2

\* module paths built around the placeholder path
PlaceholderPaths ==
    {oldPath, oldPath \o <<"2">>, oldPath \o <<"-", "v", "2">>, <<"x">> \o oldPath,
     <<"m", "y", ".">> \o oldPath}

RewritePaths ==
    {p \in CandidatePaths \cup PlaceholderPaths \cup {TestModule} : isValidModulePath(p)}

InitRewrite ==
    \E path \in RewritePaths, tree \in InitialTrees :
        /\ pc = "updateImportPaths"
        /\ input = <<>>
        /\ nread = 13
        /\ cwdBase = ExampleProject
        /\ gitGlobal = NoGitGlobal
        /\ skipGit = TRUE
        /\ config = [emptyConfig EXCEPT !.ProjectName = ExampleProject,
                                        !.ModulePath = path]
        /\ fs = updateGoMod([emptyConfig EXCEPT !.ModulePath = path], tree, "ok").tree
        /\ fs0 = tree
        /\ steps = <<>>
        /\ calls = GatherCalls
        /\ warnings = <<>>
        /\ exitStatus = "running"
        /\ fatal = "none"
        /\ failedStep = "none"
        /\ gitErr = "none"
        /\ hookErr = "none"
        /\ commit = noCommit

\* one more run of updateImportPaths on the tree the last run left
RewriteAgain ==
    /\ pc = "updateImportPaths"
    /\ Len(steps) < MaxRewriteRuns
    /\ \E failAt \in 0..Len(GoFilesInWalkOrder) + 1, kind \in {"read_fail", "write_fail", "walk_fail"} :
        LET result == updateImportPaths(config, fs, failAt, kind) IN
            /\ fs' = result.tree
            /\ steps' = Append(steps, "updateImportPaths")
            /\ failedStep' = IF result.err # "nil" THEN "updateImportPaths"
                             ELSE failedStep
    /\ UNCHANGED <<env, pc, nread, config, calls, warnings, exitStatus, fatal, gitErr,
                   hookErr, commit>>

NextRewrite == RewriteAgain

RewriteSpec == InitRewrite /\ [][NextRewrite]_vars

\* ------------------------------------------------------------------------
\* The first two prompts of gatherProjectInfo alone: the project name is
\* any candidate name, and the module path is left to its default (an
\* empty line, a blank line or the end of the input) or typed in
\* ------------------------------------------------------------------------

\* what follows the project name on the input
ModuleAnswers == {<<>>, <<Empty>>, <<<<" ">>>>, <<ExampleModule>>, <<<<"a", "b">>>>}

InitDefaultPath ==
    \E name \in CandidateNames, rest \in ModuleAnswers, base \in CwdBases :
        /\ pc = "projectName"
        /\ input \in {<<name>> \o rest, <<>>}
        /\ nread = 0
        /\ cwdBase = base
        /\ gitGlobal = NoGitGlobal
        /\ skipGit = TRUE
        /\ config = emptyConfig
        /\ fs = TestCopyTree
        /\ fs0 = TestCopyTree
        /\ steps = <<>>
        /\ calls = <<>>
        /\ warnings = <<>>
        /\ exitStatus = "running"
        /\ fatal = "none"
        /\ failedStep = "none"
        /\ gitErr = "none"
        /\ hookErr = "none"
        /\ commit = noCommit

NextDefaultPath == PromptProjectName \/ PromptModulePath

DefaultPathSpec == InitDefaultPath /\ [][NextDefaultPath]_vars

\* ------------------------------------------------------------------------
\* Properties
\* ------------------------------------------------------------------------

Affirmative == {<<"y">>, <<"y", "e", "s">>}

\* the directories the specification maps to each flag
FlagDirs ==
    [EnableCLI |-> {"cmd/cli"},
     EnableServer |-> {"cmd/server", "internal/handlers"},
     EnableWorker |-> {"cmd/worker"},
     EnableDocs |-> {"docs"},
     EnableE2ETests |-> {"tests"}]

Flags == DOMAIN FlagDirs

Gone(tree, d) == d \notin tree.dirs /\ Under[d] \cap DOMAIN tree.files = {}

\* directory d and the files below it are in tree t2 as they are in t1
Untouched(t1, t2, d) ==
    /\ d \in t1.dirs <=> d \in t2.dirs
    /\ \A f \in Under[d] :
        /\ f \in DOMAIN t1.files <=> f \in DOMAIN t2.files
        /\ f \in DOMAIN t1.files => t1.files[f] = t2.files[f]

IsProjectCall(c) == \A i \in 1..Len(GatherCalls) : GatherCalls[i] # c

\* the subprocesses started by initializeProject so far, in order: all but
\* the two that gatherProjectInfo runs to read the global git identity
ProjectCalls == SelectSeq(calls, IsProjectCall)

NothingDone ==
    /\ fs = fs0
    /\ steps = <<>>
    /\ ProjectCalls = <<>>
    /\ gitErr = "none"
    /\ hookErr = "none"
    /\ commit = noCommit

\* C1: a project name or a module path that does not match its pattern
\* ends the run at that prompt: no further line is read, nothing on disk
\* has changed, no step of initializeProject has run, the exit status is 1.
C1_ValidationBeforeMutation ==
    /\ (nread >= 1 /\ ~projectNamePattern(config.ProjectName)) =>
            (nread = 1 /\ pc = "exit" /\ exitStatus = "1" /\ NothingDone)
    /\ (nread >= 2 /\ ~modulePathPattern(config.ModulePath)) =>
            (nread = 2 /\ pc = "exit" /\ exitStatus = "1" /\ NothingDone)

C1_Witness ==
    /\ pc = "exit"
    /\ nread = 2
    /\ fatal = "invalid module path format"
    /\ config.ModulePath = <<"a", "/", "b">>

\* C2: when the thirteenth read, the confirmation, yields anything but
\* y/yes (an empty line and the end of input included), the process has
\* exited with status 0 and nothing on disk has changed.
C2_DeclineChangesNothing ==
    (/\ nread >= 13
     /\ \/ Len(input) < 13
        \/ TrimSpace(ToLower(input[13])) \notin Affirmative)
    => (pc = "exit" /\ exitStatus = "0" /\ fatal = "none" /\ nread = 13 /\ NothingDone)

C2_Witness ==
    /\ pc = "exit"
    /\ exitStatus = "0"
    /\ nread = 13
    /\ Len(input) >= 13
    /\ input[13] = <<>>
    /\ fs = fs0

\* C3: with the twelve answers of the init tests on standard input, the
\* run exits with status 0 and has initialized the project: go.mod holds
\* the module path entered, README.md holds the project name, and the
\* directories of the components answered n are gone.
C3_TwelveAnswersInitialize ==
    (input \in TestInputs /\ pc = "exit") =>
        /\ exitStatus = "0"
        /\ "go.mod" \in DOMAIN fs.files
        /\ Contains(fs.files["go.mod"], input[2])
        /\ "README.md" \in DOMAIN fs.files
        /\ Contains(fs.files["README.md"], input[1])
        /\ input[8] = No => (Gone(fs, "cmd/server") /\ Gone(fs, "internal/handlers"))
        /\ input[9] = No => Gone(fs, "cmd/worker")

\* the five required steps have all run and none returned an error
RequiredSucceeded == Len(steps) >= Len(RequiredOrder) /\ failedStep = "none"

ExampleConfiguration ==
    /\ config.ProjectName = ExampleProject
    /\ config.ModulePath = ExampleModule
    /\ config.EnableCLI
    /\ ~config.EnableServer
    /\ ~config.EnableWorker
    /\ config.EnableDocs

\* C4: for the example configuration, once the required steps have
\* succeeded and from then on, go.mod contains the module path, cmd/server,
\* internal/handlers and cmd/worker do not exist, cmd/cli and docs exist
\* if they did before the run, and README.md contains the project name.
C4_ExampleScenario ==
    (ExampleConfiguration /\ RequiredSucceeded) =>
        /\ "go.mod" \in DOMAIN fs.files
        /\ Contains(fs.files["go.mod"], ExampleModule)
        /\ Gone(fs, "cmd/server")
        /\ Gone(fs, "internal/handlers")
        /\ Gone(fs, "cmd/worker")
        /\ "cmd/cli" \in fs0.dirs => "cmd/cli" \in fs.dirs
        /\ "docs" \in fs0.dirs => "docs" \in fs.dirs
        /\ "README.md" \in DOMAIN fs.files
        /\ Contains(fs.files["README.md"], ExampleProject)

C4_Witness ==
    /\ ExampleConfiguration
    /\ pc = "exit"
    /\ exitStatus = "0"
    /\ RequiredSucceeded
    /\ "cmd/server" \in fs0.dirs
    /\ "cmd/cli" \in fs.dirs
    /\ "docs" \in fs.dirs

\* C5: a step of removeUnwantedComponents that returns nil leaves no
\* directory mapped to a false flag, and leaves the directories mapped to
\* a true flag, and the files below them, as they were.
C5_PrunerMapping ==
    [][(pc = "removeUnwantedComponents" /\ pc' = "cleanupTemplateArtifacts") =>
        \A flag \in Flags : \A d \in FlagDirs[flag] :
            IF config[flag] THEN Untouched(fs, fs', d) ELSE Gone(fs', d)]_vars

C5_Witness ==
    /\ pc = "cleanupTemplateArtifacts"
    /\ ~config.EnableServer
    /\ config.EnableCLI
    /\ "cmd/server" \in fs0.dirs
    /\ "internal/handlers" \in fs0.dirs
    /\ Gone(fs, "cmd/server")
    /\ Gone(fs, "internal/handlers")
    /\ "cmd/cli" \in fs.dirs

\* C6: after two runs of the pruner in which no RemoveAll call was failed
\* by the operating system, the tree is what one run makes of the starting
\* tree (directories already missing included), and no run returned an error.
C6_PrunerIdempotent ==
    (Len(steps) >= 2 /\ calls = <<>>) =>
        /\ fs = removeUnwantedComponents(config, fs0, 0, FALSE).tree
        /\ failedStep = "none"

C6_Witness ==
    /\ Len(steps) = 2
    /\ calls = <<>>
    /\ ~config.EnableServer
    /\ "cmd/server" \in fs0.dirs
    /\ "internal/handlers" \notin fs0.dirs
    /\ fs # fs0

TimeoutError == "git commit timed out after 10 seconds"

\* C7: once initializeGit has returned the timeout error, the commit
\* subprocess is not running and is not started later.
C7_TimeoutLeavesNoCommitRunning ==
    gitErr = TimeoutError => commit.proc # "running"

\* C8: initializeGit, once entered, eventually returns.
C8_GitAlwaysReturns ==
    (pc = "initializeGit" /\ ~skipGit) ~> (gitErr # "none")

\* C9: when the required steps have succeeded, no error of initializeGit
\* or of setupPreCommitHooks is fatal: each is logged as a warning, and the
\* run ends with status 0 after the hook setup and the removal of the init
\* script have run.
C9_BestEffortNonFatal ==
    RequiredSucceeded =>
        /\ fatal = "none"
        /\ exitStatus # "1"
        /\ gitErr \notin {"none", "nil"} =>
                \E i \in 1..Len(warnings) : warnings[i] = "Failed to initialize git"
        /\ hookErr \notin {"none", "nil"} =>
                \E i \in 1..Len(warnings) : warnings[i] = "Failed to setup pre-commit hooks"
        /\ (gitErr \notin {"none", "nil"} \/ hookErr \notin {"none", "nil"}) =>
                pc \in {"setupPreCommitHooks", "probeWait", "preCommitInstall",
                        "installWait", "removeInitScript", "exit", "blocked"}
        /\ pc = "exit" =>
                /\ exitStatus = "0"
                /\ hookErr # "none"
                /\ \E i \in 1..Len(steps) : steps[i] = "setupPreCommitHooks"
                /\ \E i \in 1..Len(steps) : steps[i] = "removeInitScript"

C9_Witness ==
    /\ pc = "exit"
    /\ exitStatus = "0"
    /\ gitErr = TimeoutError
    /\ hookErr = "pre-commit not installed"

StepIndex(step) == CHOOSE i \in 1..Len(RequiredOrder) : RequiredOrder[i] = step

\* C10: when a required step has returned an error, the process has exited
\* with status 1, the steps run are exactly those up to the failing one, no
\* subprocess was started by them, the init script is still there, and what the
\* earlier steps did is still on disk: go.mod holds the new module path
\* once its write succeeded, and the pruned directories are gone once the
\* pruning succeeded.
C10_RequiredErrorsFatal ==
    failedStep # "none" =>
        LET k == StepIndex(failedStep) IN
            /\ pc = "exit"
            /\ exitStatus = "1"
            /\ steps = SubSeq(RequiredOrder, 1, k)
            /\ calls = GatherCalls
            /\ gitErr = "none"
            /\ hookErr = "none"
            /\ commit = noCommit
            /\ "scripts/init.go" \in DOMAIN fs.files
            /\ k > 1 => ("go.mod" \in DOMAIN fs.files
                         /\ Contains(fs.files["go.mod"], config.ModulePath))
            /\ k > 3 => \A flag \in Flags : \A d \in FlagDirs[flag] :
                            ~config[flag] => Gone(fs, d)

C10_Witness ==
    /\ failedStep = "generateReadme"
    /\ pc = "exit"
    /\ exitStatus = "1"
    /\ ~config.EnableServer
    /\ "cmd/server" \in fs0.dirs
    /\ Gone(fs, "cmd/server")
    /\ fs.files["go.mod"] # fs0.files["go.mod"]

\* the characters a project name may be written with: letters, digits, hyphen
NameCharacters == LowerCase \cup UpperCase \cup Digits \cup {"-"}

\* the name checked has been accepted / rejected by isValidProjectName
NameAccepted == pc = "modulePath"

NameRejected == pc = "exit" /\ fatal = "invalid project name" /\ exitStatus = "1"

\* C11: isValidProjectName accepts exactly the names of the pattern
\* ^[A-Za-z0-9][A-Za-z0-9-]*[A-Za-z0-9]$, a first and a last alphanumeric
\* character with letters, digits and hyphens between them: every such name
\* is accepted, and the empty name, a name with a leading or a trailing
\* hyphen and a name with any character other than a letter, a digit or a
\* hyphen are rejected.
C11_NamePatternExact ==
    LET name == config.ProjectName
        n == Len(name)
    IN  /\ NameAccepted =>
            /\ name # <<>>
            /\ name[1] # "-"
            /\ name[n] # "-"
            /\ \A i \in 1..n : name[i] \in NameCharacters
        /\ NameRejected =>
            ~(/\ n >= 2
              /\ name[1] \in NameCharacters \ {"-"}
              /\ name[n] \in NameCharacters \ {"-"}
              /\ \A i \in 2..(n - 1) : name[i] \in NameCharacters)

\* a name with a hyphen and a capital inside has been accepted
C11_Witness ==
    /\ NameAccepted
    /\ config.ProjectName = <<"a", "-", "Z", "1">>

\* C12: a project name of one alphanumeric character, such as "a", is
\* valid: isValidProjectName accepts it.
C12_SingleCharacterNameValid ==
    (/\ pc # "isValidProjectName"
     /\ Len(config.ProjectName) = 1
     /\ config.ProjectName[1] \in Alnum) => NameAccepted

\* C13: a project name that starts with a digit, such as
\* "123-invalid-name", is invalid: once it has been entered at the first
\* prompt the run has failed the project name validation and has not gone
\* on to the module path prompt.
C13_LeadingDigitInvalid ==
    (/\ pc # "projectName"
     /\ config.ProjectName # <<>>
     /\ config.ProjectName[1] \in Digits) =>
        (pc = "exit" /\ fatal = "invalid project name")

\* the path checked has been accepted / rejected by isValidModulePath
PathChecked == pc \in {"description", "exit"} /\ fatal # "invalid project name"

PathAccepted == pc = "description"

PathRejected ==
    pc = "exit" /\ fatal = "invalid module path format" /\ exitStatus = "1"

\* the positions of the slashes of a string
Slashes(s) == {i \in 1..Len(s) : s[i] = "/"}

\* C14: isValidModulePath requires exactly three slash-separated segments,
\* each beginning and ending with an alphanumeric character:
\* "github.com/org/repo" is accepted; a path without a slash, with two
\* segments or with four or more segments is rejected; and a rejected path
\* ends the run with the error 'invalid module path format'.
C14_ThreeSegments ==
    LET path == config.ModulePath
        n == Len(path)
    IN  /\ PathAccepted =>
            /\ Cardinality(Slashes(path)) = 2
            /\ n > 0
            /\ path[1] \in Alnum
            /\ path[n] \in Alnum
            /\ \A i \in Slashes(path) :
                /\ 1 < i
                /\ i < n
                /\ path[i - 1] \in Alnum
                /\ path[i + 1] \in Alnum
        /\ (PathChecked /\ path = GithubOrgRepo) => PathAccepted
        /\ (PathChecked /\ Cardinality(Slashes(path)) # 2) => PathRejected
        /\ (PathChecked /\ ~PathAccepted) => PathRejected

\* a path of four segments, each of letters and digits, has been rejected
C14_Witness ==
    /\ PathRejected
    /\ Cardinality(Slashes(config.ModulePath)) = 3
    /\ \A i \in 1..Len(config.ModulePath) : config.ModulePath[i] \in Alnum \cup {"/"}
    /\ \A seg \in {Split(config.ModulePath, "/")[k] : k \in 1..4} : Len(seg) >= 2

\* a segment of at least the given number of characters, with a first and
\* a last alphanumeric character (the same one in a segment of a single
\* character) and only characters of the given set between them
SegmentShape(seg, inner, least) ==
    /\ Len(seg) >= least
    /\ Len(seg) >= 1
    /\ seg[1] \in Alnum
    /\ seg[Len(seg)] \in Alnum
    /\ \A i \in 2..(Len(seg) - 1) : seg[i] \in inner

\* letters, digits, hyphen, underscore and dot
HostCharacters == NameCharacters \cup {"_", "."}

\* C15 as stated: isValidModulePath accepts every path host/org/repo of
\* three segments in which each segment starts and ends with an
\* alphanumeric character and has only letters, digits, '-', '_' or '.'
\* between them, the last segment being held to the same rule as the others.
C15_SameRuleAllSegments ==
    LET segs == Split(config.ModulePath, "/")
    IN  (/\ PathChecked
         /\ Len(segs) = 3
         /\ \A k \in 1..3 : SegmentShape(segs[k], HostCharacters, 1)) => PathAccepted

\* C15 as amended: every segment has two or more characters; the first two
\* segments may have letters, digits, '-', '_' and '.' between their ends,
\* the last segment only letters, digits and '-': every such path is
\* accepted, and a path with '_' or '.' inside its last segment, or with a
\* segment of fewer than two characters, is rejected.
C15_SegmentRules ==
    LET segs == Split(config.ModulePath, "/")
    IN  /\ (/\ PathChecked
            /\ Len(segs) = 3
            /\ SegmentShape(segs[1], HostCharacters, 2)
            /\ SegmentShape(segs[2], HostCharacters, 2)
            /\ SegmentShape(segs[3], NameCharacters, 2)) => PathAccepted
        /\ (/\ PathChecked
            /\ Len(segs) = 3
            /\ \E k \in 1..3 : Len(segs[k]) < 2) => PathRejected
        /\ (/\ PathChecked
            /\ Len(segs) = 3
            /\ \E i \in 2..(Len(segs[3]) - 1) : segs[3][i] \in {"_", "."})
                => PathRejected

\* a path with an underscore in its first and a dot in its second segment
\* has been accepted
C15_Witness ==
    /\ PathAccepted
    /\ config.ModulePath = <<"a", "_", "1", "/", "a", ".", "b", "/", "a", "b">>

\* the yes/no questions in the order asked, with the default of each
ComponentPrompts ==
    <<[flag |-> "EnableCLI", default |-> TRUE],
      [flag |-> "EnableServer", default |-> TRUE],
      [flag |-> "EnableWorker", default |-> FALSE],
      [flag |-> "EnableDocs", default |-> TRUE],
      [flag |-> "EnableE2ETests", default |-> FALSE]>>

\* C16: promptBool, for a default of true and for a default of false,
\* returns the default when the line is empty after trimming white space,
\* true when the trimmed and lower-cased line is "y" or "yes", and false
\* for every other non-empty line whatever the default.
C16_PromptBoolLaw ==
    \A k \in 1..5 :
        (k <= nread /\ k <= Len(input)) =>
            LET q == ComponentPrompts[k]
                answer == TrimSpace(ToLower(input[k]))
            IN  /\ TrimSpace(input[k]) = <<>> => (config[q.flag] = q.default)
                /\ answer \in Affirmative => config[q.flag]
                /\ (answer # <<>> /\ answer \notin Affirmative) => ~config[q.flag]

\* the line " YEs" has been taken as yes by a question whose default is no
\* and by one whose default is yes
C16_Witness ==
    /\ pc = "docs"
    /\ Len(input) >= 3
    /\ input[3] = <<" ", "Y", "E", "s">>
    /\ config.EnableWorker
    /\ config.EnableCLI

\* the k-th prompt of gatherProjectInfo has yielded its default
YieldedDefault(k) ==
    CASE k = 1 -> config.ProjectName = cwdBase
      [] k = 2 -> config.ModulePath = defaultModulePrefix \o config.ProjectName
      [] k = 3 -> config.Description = defaultDescription
      [] k = 4 -> config.Author = getGitConfig("name", defaultAuthor)
      [] k = 5 -> config.Email = getGitConfig("email", defaultEmail)
      [] k = 6 -> config.License = defaultLicense
      [] k = 7 -> config.EnableCLI = TRUE
      [] k = 8 -> config.EnableServer = TRUE
      [] k = 9 -> config.EnableWorker = FALSE
      [] k = 10 -> config.EnableDocs = TRUE
      [] k = 11 -> config.EnableE2ETests = FALSE
      [] k = 12 -> config.GitRemote = <<>>
      [] k = 13 -> pc = "exit" /\ exitStatus = "0" /\ fatal = "none" /\ NothingDone

\* C17: a read failure on the input is never propagated as an error by a
\* prompt; the prompt yields its default (the empty string for the git
\* remote), so when the input ends early every prompt asked after the end,
\* the final confirmation included, has yielded its default, and the only
\* errors of the collector are those of the two validations and, before
\* any prompt, that of os.Getwd.
C17_ReadFailureYieldsDefault ==
    /\ \A k \in 1..13 : (k > Len(input) /\ k <= nread) => YieldedDefault(k)
    /\ (steps = <<>> /\ fatal # "none") =>
            \/ fatal = "failed to get current directory" /\ nread = 0
            \/ fatal = "invalid project name" /\ ~projectNamePattern(config.ProjectName)
            \/ fatal = "invalid module path format" /\ ~modulePathPattern(config.ModulePath)

\* the input ended after the project name and the module path: the run has
\* asked all thirteen questions and has ended as cancelled
C17_Witness ==
    /\ Len(input) = 2
    /\ nread = 13
    /\ pc = "exit"
    /\ exitStatus = "0"
    /\ config.ProjectName = ExampleProject
    /\ config.License = defaultLicense
    /\ config.EnableCLI
    /\ ~config.EnableWorker

IsHookCall(c) == c \in {"pre-commit --version", "pre-commit install"}

\* the pre-commit subprocesses started so far, in order
HookCalls == SelectSeq(calls, IsHookCall)

\* C18: the hook installer probes before it installs: 'pre-commit install'
\* is never started without a 'pre-commit --version' before it; when the
\* installer has returned 'pre-commit not installed' the install was not
\* invoked; when it has returned anything else the probe was followed by
\* the install, whose failure is what the caller was given and warned of.
C18_ProbeBeforeInstall ==
    /\ HookCalls \in {<<>>, <<"pre-commit --version">>,
                      <<"pre-commit --version", "pre-commit install">>}
    /\ hookErr = "pre-commit not installed" =>
            /\ HookCalls = <<"pre-commit --version">>
            /\ pc \in {"removeInitScript", "exit"}
    /\ pc \in {"probeWait", "preCommitInstall"} =>
            /\ hookErr = "none"
            /\ HookCalls = <<"pre-commit --version">>
    /\ pc = "installWait" =>
            /\ hookErr = "none"
            /\ HookCalls = <<"pre-commit --version", "pre-commit install">>
    /\ hookErr \in {"nil", "exit status 1"} =>
            HookCalls = <<"pre-commit --version", "pre-commit install">>
    /\ hookErr \in {"none", "nil", "pre-commit not installed", "exit status 1"}
    /\ hookErr \in {"pre-commit not installed", "exit status 1"} =>
            \E i \in 1..Len(warnings) : warnings[i] = "Failed to setup pre-commit hooks"
    /\ hookErr \in {"none", "nil"} =>
            \A i \in 1..Len(warnings) : warnings[i] # "Failed to setup pre-commit hooks"

\* the probe failed: the installer has returned at once and the run has
\* ended without an install
C18_Witness ==
    /\ hookErr = "pre-commit not installed"
    /\ pc = "exit"
    /\ exitStatus = "0"
    /\ HookCalls = <<"pre-commit --version">>

\* C19: with SKIP_GIT_INIT set to a non-empty value the version-control
\* bootstrapper is suppressed entirely: no git subprocess (init, config,
\* remote add, add, commit) is started during initializeProject and
\* initializeGit neither runs nor returns, while the steps after it still
\* run: a run whose required steps succeeded and that has ended has
\* attempted the hook installation, removed the init script and exited
\* with status 0.
C19_SkipGitInit ==
    skipGit =>
        /\ ProjectCalls = HookCalls
        /\ gitErr = "none"
        /\ commit = noCommit
        /\ \A i \in 1..Len(steps) : steps[i] # "initializeGit"
        /\ (pc = "exit" /\ RequiredSucceeded) =>
                /\ exitStatus = "0"
                /\ fatal = "none"
                /\ steps = RequiredOrder \o <<"setupPreCommitHooks", "removeInitScript",
                                              "removeEmptyDirectory">>
                /\ HookCalls # <<>>
                /\ hookErr # "none"

\* a run with the toggle set has ended: the hooks were installed and the
\* init script is gone
C19_Witness ==
    /\ skipGit
    /\ pc = "exit"
    /\ exitStatus = "0"
    /\ hookErr = "nil"
    /\ calls = GatherCalls \o <<"pre-commit --version", "pre-commit install">>
    /\ "scripts/init.go" \in DOMAIN fs0.files
    /\ "scripts/init.go" \notin DOMAIN fs.files

IsGitCall(c) == IsProjectCall(c) /\ ~IsHookCall(c)

\* the git subprocesses initializeGit has started so far, in order
GitCalls == SelectSeq(calls, IsGitCall)

\* the git subprocesses of a complete initializeGit, in order
GitSequence ==
    <<"git init", "git config user.name", "git config user.email">>
    \o (IF config.GitRemote # <<>> THEN <<"git remote add">> ELSE <<>>)
    \o <<"git add", "git commit">>

\* C20: in initializeGit the commit is attempted only after 'git init' and
\* 'git add .' have succeeded: the git subprocesses are started in the
\* order init, config user.name, config user.email, remote add, add,
\* commit; a failed init returns an error with nothing after it attempted;
\* a failed add returns an error with no commit attempted; and a failure
\* of setting user.name or user.email or of adding the remote is only
\* logged: it is never what initializeGit returns.
C20_CommitAfterInitAndAdd ==
    LET n == Len(GitCalls) IN
        /\ n <= Len(GitSequence)
        /\ GitCalls = SubSeq(GitSequence, 1, n)
        /\ gitErr = "failed to initialize git" => GitCalls = <<"git init">>
        /\ gitErr = "failed to stage files" =>
                GitCalls = SubSeq(GitSequence, 1, Len(GitSequence) - 1)
        /\ (n > 0 /\ GitCalls[n] = "git commit") =>
                gitErr \notin {"failed to initialize git", "failed to stage files"}
        /\ (gitErr \notin {"none", "failed to initialize git"}) =>
                n >= Len(GitSequence) - 1
        /\ (\E i \in 1..Len(warnings) :
                warnings[i] \in {"Failed to set git identity", "Failed to add git remote"})
            => (gitErr # "none" => gitErr \in {"nil", "failed to stage files",
                                               "failed to create initial commit",
                                               TimeoutError})

\* user.name, user.email and the remote all failed to be set, and the
\* files were staged and committed all the same
C20_Witness ==
    /\ \E i \in 1..Len(warnings) : warnings[i] = "Failed to add git remote"
    /\ Len(SelectSeq(warnings, LAMBDA w : w = "Failed to set git identity")) = 2
    /\ GitCalls = GitSequence
    /\ gitErr = "nil"

CommitError == "failed to create initial commit"

\* the select of initializeGit returns in this step
SelectReturns == pc = "select" /\ gitErr = "none" /\ gitErr' # "none"

\* the outcome that the behaviour of the commit subprocess calls for at
\* the moment the select returns: success when it has exited successfully,
\* commit failure when it has exited with a failure or could not be
\* started, timeout when it has not finished
OutcomeOf(c) ==
    IF c.proc = "exited_ok" THEN "nil"
    ELSE IF c.proc = "exited_fail" THEN CommitError
    ELSE IF c.proc = "none" /\ c.goroutine \in {"send", "end"} THEN CommitError
    ELSE TimeoutError

\* C21 as stated: the outcome of the commit step is determined by the
\* behaviour of the commit subprocess alone: whatever the interleaving of
\* the goroutine's completion signal and the timer, a subprocess that has
\* exited successfully gives success, one that has failed gives the commit
\* failure, and only one that has not finished gives the timeout.
C21_OutcomeDeterministic ==
    [][SelectReturns => gitErr' = OutcomeOf(commit)]_vars

\* C21 as amended: the select returns exactly one of success, commit
\* failure and timeout; success only for a subprocess that exited
\* successfully, the commit failure only for one that failed, and always
\* the timeout for one that has not finished; a subprocess that has
\* already exited is reported as the timeout when the timer is received
\* before the goroutine's completion signal.
C21_OutcomeByFirstEvent ==
    [][SelectReturns =>
        /\ gitErr' \in {"nil", CommitError, TimeoutError}
        /\ gitErr' = "nil" => OutcomeOf(commit) = "nil"
        /\ gitErr' = CommitError => OutcomeOf(commit) = CommitError
        /\ OutcomeOf(commit) = TimeoutError => gitErr' = TimeoutError
        /\ gitErr' # TimeoutError => commit.done # <<>>]_vars

\* the commit exited with a failure and initializeGit has returned the
\* commit failure
C21_Witness ==
    /\ gitErr = CommitError
    /\ commit.proc = "exited_fail"
    /\ commit.goroutine = "end"
    /\ commit.done = <<>>

\* how many times x occurs in a sequence
Count(seq, x) == Len(SelectSeq(seq, LAMBDA e : e = x))

BestEffortCalls ==
    {"git init", "git config user.name", "git config user.email", "git remote add",
     "git add", "git commit", "pre-commit --version", "pre-commit install"}

\* C22: there is no retry: in every run each best-effort step (initializeGit
\* and each of its git subprocesses, setupPreCommitHooks and its probe and
\* install) is attempted at most once, exactly once when the step has
\* returned, and its failure is reported by one warning; nothing is
\* attempted again after it failed or timed out.
C22_NoRetry ==
    /\ \A c \in BestEffortCalls : Count(calls, c) <= 1
    /\ \A i \in 1..Len(ProjectCalls) : ProjectCalls[i] \in BestEffortCalls
    /\ Count(steps, "initializeGit") <= 1
    /\ Count(steps, "setupPreCommitHooks") <= 1
    /\ gitErr # "none" =>
            /\ Count(steps, "initializeGit") = 1
            /\ Count(calls, "git init") = 1
    /\ hookErr # "none" =>
            /\ Count(steps, "setupPreCommitHooks") = 1
            /\ Count(calls, "pre-commit --version") = 1
    /\ Count(warnings, "Failed to initialize git") =
            (IF gitErr \in {"none", "nil"} THEN 0 ELSE 1)
    /\ Count(warnings, "Failed to setup pre-commit hooks") =
            (IF hookErr \in {"none", "nil"} THEN 0 ELSE 1)
    /\ Count(warnings, "Failed to set git identity") <= 2
    /\ Count(warnings, "Failed to add git remote") <= 1
    /\ Count(warnings, "failed to kill git commit process") <= 1
    /\ (pc = "exit" /\ exitStatus = "0" /\ RequiredSucceeded) =>
            /\ Count(steps, "setupPreCommitHooks") = 1
            /\ Count(steps, "initializeGit") = (IF skipGit THEN 0 ELSE 1)

\* the commit timed out and the hook installation failed: the run has
\* ended with each attempted once
C22_Witness ==
    /\ pc = "exit"
    /\ exitStatus = "0"
    /\ gitErr = TimeoutError
    /\ hookErr = "exit status 1"
    /\ Count(calls, "git commit") = 1
    /\ Count(calls, "pre-commit install") = 1

\* the files of the template whose names do not end in .go
NotGoFiles ==
    {"go.mod", "README.md", "scripts/smoke-test.sh", "docs/content/_index.md",
     "docs/content/docs/getting-started.md"}

\* C23: after updateImportPaths has succeeded, every file whose name ends
\* in .go holds its previous content with every occurrence of the
\* placeholder path replaced by the new module path, and every other file
\* is unchanged; a .go file without an occurrence is not written: it keeps
\* its content in every run of the step, a failing one included.
C23_ImportPathRewrite ==
    [][pc = "updateImportPaths" =>
        /\ pc' = "removeUnwantedComponents" =>
            /\ fs'.dirs = fs.dirs
            /\ DOMAIN fs'.files = DOMAIN fs.files
            /\ \A p \in DOMAIN fs.files :
                IF p \in NotGoFiles
                THEN fs'.files[p] = fs.files[p]
                ELSE fs'.files[p] = ReplaceAll(fs.files[p], oldPath, config.ModulePath)
        /\ \A p \in DOMAIN fs.files :
            (p \in NotGoFiles \/ ~Contains(fs.files[p], oldPath)) =>
                (p \in DOMAIN fs'.files /\ fs'.files[p] = fs.files[p])]_vars

\* the step has succeeded on a tree whose server program named the
\* placeholder twice: both occurrences now read as the new module path
C23_Witness ==
    /\ pc = "removeUnwantedComponents"
    /\ config.ModulePath = ExampleModule
    /\ "cmd/server/main.go" \in DOMAIN fs.files
    /\ ~Contains(fs.files["cmd/server/main.go"], oldPath)
    /\ fs.files["cmd/server/main.go"] =
            ReplaceAll(fs0.files["cmd/server/main.go"], oldPath, ExampleModule)
    /\ fs.files["internal/app/app.go"] = fs0.files["internal/app/app.go"]

ScalarFields ==
    {"ProjectName", "ModulePath", "Description", "Author", "Email", "License", "GitRemote"}

FlagFields == {"EnableCLI", "EnableServer", "EnableWorker", "EnableDocs", "EnableE2ETests"}

\* the configurations that differ from the current one in the one field
Variants(field) ==
    IF field \in ScalarFields
    THEN {[config EXCEPT ![field] = v] : v \in FieldValues[field] \ {config[field]}}
    ELSE {[config EXCEPT ![field] = ~config[field]]}

\* generateReadme has succeeded in this state
ReadmeGenerated ==
    /\ pc = "initializeGit"
    /\ steps = RequiredOrder
    /\ "README.md" \in DOMAIN fs.files

\* the fields the README depends on, and those it does not
ReadmeFields ==
    {"ProjectName", "Description", "License", "GitRemote",
     "EnableCLI", "EnableServer", "EnableWorker", "EnableE2ETests"}

\* C24 as stated: the rendered README is a function of the configuration
\* only in which every scalar field (project name, module path,
\* description, author, email, license, git remote) is substituted and
\* which is keyed on each of the five flags, so that changing any one
\* field changes the rendered output.
C24_ReadmeUsesEveryField ==
    ReadmeGenerated =>
        /\ \A f \in ScalarFields : Contains(fs.files["README.md"], config[f])
        /\ \A f \in ScalarFields \cup FlagFields : \A c \in Variants(f) :
                readmeTemplate(c) # fs.files["README.md"]

\* C24 as amended: the rendered README is a function of the configuration
\* only (an existing README is replaced) in which project name,
\* description, license and git remote are substituted and which is keyed
\* on the flags for CLI, server, worker and E2E tests: changing any one of
\* these eight changes the output, while module path, author, email and
\* the documentation flag do not affect it.
C24_ReadmeFields ==
    ReadmeGenerated =>
        /\ \A f \in ReadmeFields \cap ScalarFields :
                Contains(fs.files["README.md"], config[f])
        /\ \A f \in ReadmeFields : \A c \in Variants(f) :
                readmeTemplate(c) # fs.files["README.md"]
        /\ \A f \in (ScalarFields \cup FlagFields) \ ReadmeFields : \A c \in Variants(f) :
                readmeTemplate(c) = fs.files["README.md"]
        /\ \A p \in DOMAIN fs.files \ {"README.md"} :
                p \in DOMAIN fs0.files /\ fs.files[p] = fs0.files[p]
        /\ DOMAIN fs0.files \subseteq DOMAIN fs.files
        /\ "README.md" \in DOMAIN fs0.files =>
                fs.files["README.md"] # fs0.files["README.md"]

\* a README has replaced the one of the template, for a configuration
\* with a license other than the default and without the server
C24_Witness ==
    /\ ReadmeGenerated
    /\ "README.md" \in DOMAIN fs0.files
    /\ config.License # defaultLicense
    /\ ~config.EnableServer
    /\ config.EnableE2ETests
    /\ config.GitRemote = RemoteUrl

\* the end-to-end test file of each of the three programs
ComponentTestFile ==
    [EnableCLI |-> "tests/e2e/cli_e2e_test.go",
     EnableServer |-> "tests/e2e/server_e2e_test.go",
     EnableWorker |-> "tests/e2e/worker_e2e_test.go"]

\* C25: after the required steps have succeeded, whatever the flags,
\* tests/e2e/init_e2e_test.go does not exist and the end-to-end test file
\* of every declined component among CLI, server and worker does not
\* exist; a file that is already missing is not an error, so the cleanup
\* run again on the tree it has left succeeds and leaves that tree.
C25_TestFilesRemoved ==
    /\ RequiredSucceeded =>
        /\ "tests/e2e/init_e2e_test.go" \notin DOMAIN fs.files
        /\ \A flag \in DOMAIN ComponentTestFile :
            ~config[flag] => ComponentTestFile[flag] \notin DOMAIN fs.files
    /\ (pc = "generateReadme" /\ failedStep = "none") =>
        \A indexFirst \in BOOLEAN :
            cleanupTemplateArtifacts(config, fs, 0, "open_fail", indexFirst) = Ok(fs)

\* E2E tests are kept and the CLI is declined: the CLI test file and the
\* initializer's own test are gone, the server test file is still there
C25_Witness ==
    /\ RequiredSucceeded
    /\ config.EnableE2ETests
    /\ ~config.EnableCLI
    /\ config.EnableServer
    /\ "tests/e2e/cli_e2e_test.go" \in DOMAIN fs0.files
    /\ "tests/e2e/cli_e2e_test.go" \notin DOMAIN fs.files
    /\ "tests/e2e/init_e2e_test.go" \notin DOMAIN fs.files
    /\ "tests/e2e/server_e2e_test.go" \in DOMAIN fs.files

\* the prompts of gatherProjectInfo in the order of their reads
PromptOrder ==
    <<"projectName", "modulePath", "description", "author", "email", "license", "cli",
      "server", "worker", "docs", "e2e", "gitRemote", "confirm">>

\* the text a text prompt makes of a line
TextOf(line) == TrimSpace(line)

\* the yes or no a yes/no prompt makes of a line that is not blank
SaysYes(line) == TrimSpace(ToLower(line)) \in Affirmative

\* the k-th prompt has taken the k-th line as its answer
AnsweredBy(k, line) ==
    IF TextOf(line) = <<>> THEN YieldedDefault(k)
    ELSE CASE k = 1 -> config.ProjectName = TextOf(line)
           [] k = 2 -> config.ModulePath = TextOf(line)
           [] k = 3 -> config.Description = TextOf(line)
           [] k = 4 -> config.Author = TextOf(line)
           [] k = 5 -> config.Email = TextOf(line)
           [] k = 6 -> config.License = TextOf(line)
           [] k = 7 -> config.EnableCLI = SaysYes(line)
           [] k = 8 -> config.EnableServer = SaysYes(line)
           [] k = 9 -> config.EnableWorker = SaysYes(line)
           [] k = 10 -> config.EnableDocs = SaysYes(line)
           [] k = 11 -> config.EnableE2ETests = SaysYes(line)
           [] k = 12 -> config.GitRemote = TextOf(line)
           [] k = 13 -> IF SaysYes(line) THEN ~(pc = "exit" /\ steps = <<>>)
                        ELSE YieldedDefault(13)

\* C26: gatherProjectInfo reads standard input in one fixed order of at
\* most thirteen line reads: project name, module path, description,
\* author, email, license, CLI, server, worker, docs, E2E tests, git
\* remote, confirmation; each prompt takes one line (or the end of the
\* input), so the k-th line is the answer to the k-th prompt, and the
\* confirmation is the thirteenth and last read.
C26_PromptOrder ==
    /\ nread <= 13
    /\ \A k \in 1..13 : pc = PromptOrder[k] => nread = k - 1
    /\ (\A k \in 1..13 : pc # PromptOrder[k]) =>
            \/ nread = 13
            \/ nread = 0 /\ fatal = "failed to get current directory"
            \/ nread = 1 /\ fatal = "invalid project name"
            \/ nread = 2 /\ fatal = "invalid module path format"
            \/ nread = 3 /\ pc \in {"getGitAuthor", "getGitEmail", "blocked"}
                         /\ steps = <<>>
    /\ \A k \in 1..13 : (k <= nread /\ k <= Len(input)) => AnsweredBy(k, input[k])

\* an input of more than thirteen lines: the thirteenth has confirmed and
\* no further line is read
C26_Witness ==
    /\ Len(input) > 13
    /\ nread = 13
    /\ pc = "exit"
    /\ exitStatus = "0"
    /\ steps # <<>>
    /\ ~config.EnableServer
    /\ config.EnableDocs
    /\ config.GitRemote = RemoteUrl

\* no .go file of the tree holds the placeholder path
NoPlaceholder(tree) ==
    \A p \in DOMAIN tree.files \ NotGoFiles : ~Contains(tree.files[p], oldPath)

\* a run of updateImportPaths succeeds in this step, after successful runs only
RewriteSucceeds == steps' # steps /\ failedStep' = "none"

\* C27 as stated: for every module path that isValidModulePath accepts the
\* rewrite is complete and idempotent: after a successful updateImportPaths
\* no .go file holds the placeholder path, and a second run with the same
\* configuration changes no file.
C27_RewriteIdempotent ==
    [][RewriteSucceeds =>
        /\ NoPlaceholder(fs')
        /\ steps # <<>> => fs' = fs]_vars

\* C27 as amended: the same for every accepted module path that does not
\* have the placeholder path within it.
C27_RewriteIdempotentApart ==
    [][(RewriteSucceeds /\ ~Contains(config.ModulePath, oldPath)) =>
        /\ NoPlaceholder(fs')
        /\ steps # <<>> => fs' = fs]_vars

\* the rewrite has run twice without an error on the full template, for a
\* module path with a dot and an underscore
C27_Witness ==
    /\ Len(steps) = 2
    /\ failedStep = "none"
    /\ "cmd/server/main.go" \in DOMAIN fs.files
    /\ fs.files["cmd/server/main.go"] # fs0.files["cmd/server/main.go"]
    /\ Contains(fs.files["cmd/server/main.go"], config.ModulePath)
    /\ NoPlaceholder(fs)
    /\ config.ModulePath = <<"a", "_", "1", "/", "a", ".", "b", "/", "a", "b">>

\* the module-path prompt has read an empty line, a blank one or the end of
\* the input, after a project name that was accepted
DefaultPathTaken ==
    /\ nread >= 2
    /\ fatal # "invalid project name"
    /\ Len(input) >= 2 => TextOf(input[2]) = <<>>

\* C28: for every project name that isValidProjectName accepts, the default
\* module path github.com/your-org/<project name> is accepted by
\* isValidModulePath: leaving the module-path prompt at its default (an
\* empty line or the end of the input) never ends in the error
\* "invalid module path format".
C28_DefaultPathAccepted ==
    DefaultPathTaken =>
        /\ config.ModulePath = defaultModulePrefix \o config.ProjectName
        /\ fatal # "invalid module path format"
        /\ nread = 2 => pc = "description" /\ exitStatus = "running"

\* a name with a leading digit and a hyphen was typed and the module path
\* left to the end of the input
C28_Witness ==
    /\ DefaultPathTaken
    /\ Len(input) = 1
    /\ config.ProjectName = <<"1", "-", "a">>
    /\ config.ModulePath = defaultModulePrefix \o <<"1", "-", "a">>
    /\ pc = "description"

\* the step has been taken
Taken(step) == \E i \in 1..Len(steps) : steps[i] = step

\* C29: the self-removal (scripts/init.go, then the scripts directory if it
\* is empty) is attempted only after initializeGit, unless it is skipped,
\* and setupPreCommitHooks have returned; until then the init script is
\* where it was, so the index that git add filled, which is what the
\* initial commit records, holds scripts/init.go; and a failure of either
\* removal is only logged: initializeProject returns nil and the run ends
\* with status 0.
C29_SelfRemovalLast ==
    /\ ~Taken("removeInitScript") =>
            ("scripts/init.go" \in DOMAIN fs0.files => "scripts/init.go" \in DOMAIN fs.files)
    /\ commit.goroutine # "none" => "scripts/init.go" \in commit.index
    /\ Taken("removeInitScript") =>
            /\ skipGit \/ gitErr # "none"
            /\ hookErr # "none"
            /\ Taken("removeEmptyDirectory")
            /\ pc = "exit"
            /\ exitStatus = "0"
            /\ fatal = "none"
            /\ failedStep = "none"

\* the commit was created, both best-effort steps returned, the removal of
\* the init script failed and was logged, and the run ended with status 0
C29_Witness ==
    /\ commit.proc = "exited_ok"
    /\ "scripts/init.go" \in commit.index
    /\ gitErr = "nil"
    /\ hookErr = "nil"
    /\ Taken("removeInitScript")
    /\ "scripts/init.go" \in DOMAIN fs.files
    /\ \E i \in 1..Len(warnings) : warnings[i] = "Failed to remove init script"
    /\ \E i \in 1..Len(warnings) : warnings[i] = "Could not remove scripts directory"
    /\ exitStatus = "0"

\* the commit subprocess is over, or was never started
SubprocessOver == commit.proc \in {"none", "exited_ok", "exited_fail", "killed"}

\* the goroutine is past the start of the subprocess and has not ended
GoroutineBusy == commit.goroutine \in {"wait", "drain", "send"}

\* the output of the subprocess has reached its end, or there is none
OutputOver == commit.pipe \in {"none", "closed"}

\* the sends made on the done channel so far: what is in the channel, and
\* what the select has received
Sends == Len(commit.done) + (IF gitErr \notin {"none", TimeoutError} /\
                                 commit.goroutine = "end" /\ commit.done = <<>>
                              THEN 1 ELSE 0)

\* the done channel has capacity one and gets one send per call of
\* initializeGit, none before the goroutine has its result and exactly one
\* once it has ended, so the channel has room whenever the goroutine is at
\* its send, also after the timeout branch has returned without receiving
OneSendWithRoom ==
    /\ commit.goroutine = "send" => Len(commit.done) < DoneCapacity
    /\ Len(commit.done) <= DoneCapacity
    /\ commit.goroutine \in {"none", "start", "wait", "drain", "send"} => Sends = 0
    /\ (commit.goroutine = "end" /\ gitErr # "none") => Sends = 1

\* C30 as stated: the goroutine that runs git commit never blocks for ever
\* on delivering its result: the channel has capacity one and gets exactly
\* one send per call, so that, also when the timeout branch has returned
\* without receiving, the send completes and the goroutine terminates once
\* the commit subprocess has ended.
C30_SendNeverBlocks ==
    /\ []OneSendWithRoom
    /\ ((GoroutineBusy /\ SubprocessOver) ~> (commit.goroutine = "end"))

\* C30 as amended: the send never waits for room in the channel, and the
\* goroutine sends and terminates once the commit subprocess has ended and
\* its output has reached its end, unless the initializer's process exits
\* before.
C30_SendNeverBlocksAtEOF ==
    /\ []OneSendWithRoom
    /\ ((GoroutineBusy /\ SubprocessOver /\ OutputOver)
            ~> (commit.goroutine = "end" \/ ~GoroutineRuns))

\* the timeout branch has returned and killed the subprocess, and the
\* goroutine has sent its error into the channel, which nobody receives,
\* and has ended
C30_Witness ==
    /\ gitErr = TimeoutError
    /\ commit.proc = "killed"
    /\ commit.goroutine = "end"
    /\ commit.done = <<"failed to create initial commit">>
    /\ pc \in {"setupPreCommitHooks", "removeInitScript"}

====
